---- MODULE Spec2Model ----
(***************************************************************************)
(* TurboFire: the 7-card hand evaluator of ranks.c (flush table plus rank  *)
(* map) and the counterfactual-regret engine built on it.                  *)
(*                                                                         *)
(* A packed hand (uint64_t) is modelled as the set of its set bit          *)
(* positions: the card of rank r (0 = deuce .. 12 = ace) and suit s is bit *)
(* r + 16*s.  13-bit rank masks are integers, as in the code.              *)
(***************************************************************************)
EXTENDS Integers, Sequences, FiniteSets, TLC

(***************************************************************************)
(* Program constants (ranks.h)                                             *)
(***************************************************************************)
FLUSH_MAP_SIZE == 8192
HIGH_CARD_FLOOR == 1
ONE_PAIR_FLOOR == 1278
TWO_PAIR_FLOOR == 4138
TRIPS_FLOOR == 4996
STRAIGHT_FLOOR == 5854
FLUSH_FLOOR == 5864
FULL_HOUSE_FLOOR == 7141
QUADS_FLOOR == 7297
STRAIGHT_FLUSH_FLOOR == 7453
ROYAL_FLUSH_CEILING == 7463

SUIT_PERMUTATION == <<1, 0, 3, 2>>

nCk ==
  << <<1,0,0,0,0,0>>, <<1,1,0,0,0,0>>, <<1,2,1,0,0,0>>, <<1,3,3,1,0,0>>,
     <<1,4,6,4,1,0>>, <<1,5,10,10,5,1>>, <<1,6,15,20,15,6>>,
     <<1,7,21,35,35,21>>, <<1,8,28,56,70,56>>, <<1,9,36,84,126,126>>,
     <<1,10,45,120,210,252>>, <<1,11,55,165,330,462>>,
     <<1,12,66,220,495,792>> >>

\* nCk[n][k] of the C table (0-based)
Choose(n, k) == nCk[n + 1][k + 1]

(***************************************************************************)
(* Bit operations on 13-bit masks                                          *)
(***************************************************************************)
Bit(m, i) == (m \div (2 ^ i)) % 2

\* __builtin_popcount on a 13-bit mask
Popcount(m) ==
  Bit(m,0) + Bit(m,1) + Bit(m,2) + Bit(m,3) + Bit(m,4) + Bit(m,5) + Bit(m,6)
  + Bit(m,7) + Bit(m,8) + Bit(m,9) + Bit(m,10) + Bit(m,11) + Bit(m,12)

RECURSIVE LowBit(_)
\* value of the lowest set bit of m (m > 0)
LowBit(m) == IF m % 2 = 1 THEN 1 ELSE 2 * LowBit(m \div 2)

\* i & (i - 1): clears the lowest set bit
ClearLowBit(i) == i - LowBit(i)

\* (mask >> i) & 0b11111 == 0b11111
FiveRunAt(mask, i) == (mask \div (2 ^ i)) % 32 = 31

\* (mask & 0b1000000001111) == 0b1000000001111
HasWheel(mask) == mask % 16 = 15 /\ Bit(mask, 12) = 1

RECURSIVE HighestRun(_, _)
\* for (i = 8; i >= 0; i--) if five-run at i: the first i found, -1 if none
HighestRun(mask, i) ==
  IF i < 0 THEN -1
  ELSE IF FiveRunAt(mask, i) THEN i
  ELSE HighestRun(mask, i - 1)

(***************************************************************************)
(* Flush table                                                             *)
(***************************************************************************)
\* returns the strength and the updated normal_flush_counter
calculate_flush_strength_from_hand(generated, normal_flush_counter) ==
  IF HasWheel(generated)
  THEN [rank |-> STRAIGHT_FLUSH_FLOOR + 1, counter |-> normal_flush_counter]
  ELSE LET i == HighestRun(generated, 8) IN
       IF i >= 0
       THEN [rank |-> STRAIGHT_FLUSH_FLOOR + (i + 2),
             counter |-> normal_flush_counter]
       ELSE [rank |-> FLUSH_FLOOR + normal_flush_counter,
             counter |-> normal_flush_counter + 1]

\* the loop body with the copy from i & (i - 1) made for six ranks only
FlushLoopBody_SixOnly(st, i) ==
  LET count == Popcount(i) IN
  IF count = 5
  THEN LET r == calculate_flush_strength_from_hand(i, st.counter)
       IN [map |-> [st.map EXCEPT ![i] = r.rank], counter |-> r.counter]
  ELSE IF count = 6
  THEN [map |-> [st.map EXCEPT ![i] = st.map[ClearLowBit(i)]],
        counter |-> st.counter]
  ELSE [map |-> [st.map EXCEPT ![i] = 0], counter |-> st.counter]

\* one iteration of the loop of init_flush_map
FlushLoopBody(st, i) ==
  LET count == Popcount(i) IN
  IF count = 5
  THEN LET r == calculate_flush_strength_from_hand(i, st.counter)
       IN [map |-> [st.map EXCEPT ![i] = r.rank], counter |-> r.counter]
  ELSE IF count > 5
  THEN [map |-> [st.map EXCEPT ![i] = st.map[ClearLowBit(i)]],
        counter |-> st.counter]
  ELSE [map |-> [st.map EXCEPT ![i] = 0], counter |-> st.counter]

RECURSIVE FlushLoop(_, _, _)
\* the iterations lo .. hi-1 of the loop, in increasing order
FlushLoop(st, lo, hi) ==
  IF hi - lo = 1 THEN FlushLoopBody(st, lo)
  ELSE LET mid == (lo + hi) \div 2
           left == FlushLoop(st, lo, mid)
       IN IF left.counter >= 0 THEN FlushLoop(left, mid, hi) ELSE left

\* the table after init_flush_map()
flush_map ==
  FlushLoop([map |-> [i \in 0 .. (FLUSH_MAP_SIZE - 1) |-> 0], counter |-> 0],
            0, FLUSH_MAP_SIZE).map


(***************************************************************************)
(* Rank map: strength of a 7-card rank multiset without a flush            *)
(***************************************************************************)
Ranks == 0 .. 12

\* the histogram and mask loop of calculate_rank_strength ("pop histogram")
RankCounts(ranks) ==
  [r \in Ranks |-> Cardinality({i \in 1 .. Len(ranks) : ranks[i] = r})]

RankMask(ranks) == {ranks[i] : i \in 1 .. Len(ranks)}

RECURSIVE MaskValue(_)
\* the integer value of a set of ranks seen as a 13-bit mask
MaskValue(rs) ==
  IF rs = {} THEN 0
  ELSE LET r == CHOOSE x \in rs : TRUE IN (2 ^ r) + MaskValue(rs \ {r})

\* body of the "find groups" loop for rank i with count c
GroupStep(g, c, i) ==
  IF c = 4 THEN [g EXCEPT !.quads = i]
  ELSE IF c = 3
  THEN IF g.trips = -1 THEN [g EXCEPT !.trips = i]
       ELSE IF g.high_pair = -1 THEN [g EXCEPT !.high_pair = i]
       ELSE g
  ELSE IF c = 2
  THEN IF g.high_pair = -1 THEN [g EXCEPT !.high_pair = i]
       ELSE IF g.low_pair = -1 THEN [g EXCEPT !.low_pair = i]
       ELSE g
  ELSE g

RECURSIVE FindGroups(_, _, _)
\* for (i = 12; i >= 0; i--) over the histogram
FindGroups(counts, i, g) ==
  IF i < 0 THEN g
  ELSE FindGroups(counts, i - 1, GroupStep(g, counts[i], i))

RECURSIVE KickersFrom(_, _, _)
\* the ranks i = from .. 0, descending, with rank_counts[i] > 0 and i not in
\* excl: the order in which the kicker loops meet them
KickersFrom(counts, excl, from) ==
  IF from < 0 THEN << >>
  ELSE IF counts[from] > 0 /\ from \notin excl
  THEN <<from>> \o KickersFrom(counts, excl, from - 1)
  ELSE KickersFrom(counts, excl, from - 1)

\* the kicker loop without its break: the last rank met, not the k-th
Kicker_NoBreak(ks, k) == IF Len(ks) > 0 THEN ks[Len(ks)] ELSE -1

\* the k-th kicker met by the loop, -1 (the initial value) when there is none
Kicker(ks, k) == IF k <= Len(ks) THEN ks[k] ELSE -1

\* "normalize": if (kicker > group) kicker--
Norm(kicker, group) == IF kicker > group THEN kicker - 1 ELSE kicker

calculate_rank_strength(ranks) ==
  LET rank_counts == RankCounts(ranks)
      rank_mask == MaskValue(RankMask(ranks))
      g == FindGroups(rank_counts, 12,
                      [quads |-> -1, trips |-> -1,
                       high_pair |-> -1, low_pair |-> -1])
      run == HighestRun(rank_mask, 8)
  IN
  IF g.quads # -1
  THEN LET kicker == Norm(Kicker(KickersFrom(rank_counts, {g.quads}, 12), 1),
                          g.quads)
       IN QUADS_FLOOR + (g.quads * 12) + kicker + 1
  ELSE IF g.trips # -1 /\ g.high_pair # -1
  THEN FULL_HOUSE_FLOOR + (g.trips * 12) + Norm(g.high_pair, g.trips) + 1
  ELSE IF run >= 0
  THEN STRAIGHT_FLOOR + (run + 2)
  ELSE IF HasWheel(rank_mask)
  THEN STRAIGHT_FLOOR + 1
  ELSE IF g.trips # -1
  THEN LET ks == KickersFrom(rank_counts, {g.trips}, 12)
           kicker_high == Norm(Kicker(ks, 1), g.trips)
           kicker_low == Norm(Kicker(ks, 2), g.trips)
       IN TRIPS_FLOOR + (g.trips * 66) + Choose(kicker_high, 2)
          + Choose(kicker_low, 1) + 1
  ELSE IF g.high_pair # -1 /\ g.low_pair # -1
  THEN LET ks == KickersFrom(rank_counts, {g.high_pair, g.low_pair}, 12)
           kicker == Norm(Norm(Kicker(ks, 1), g.high_pair), g.low_pair)
           kicker_score == Choose(g.high_pair, 2) + Choose(g.low_pair, 1)
       IN TWO_PAIR_FLOOR + (kicker_score * 11) + kicker + 1
  ELSE IF g.high_pair # -1
  THEN LET ks == KickersFrom(rank_counts, {g.high_pair}, 12)
           k0 == Norm(Kicker(ks, 1), g.high_pair)
           k1 == Norm(Kicker(ks, 2), g.high_pair)
           k2 == Norm(Kicker(ks, 3), g.high_pair)
           kicker_score == Choose(k0, 3) + Choose(k1, 2) + Choose(k2, 1)
       IN ONE_PAIR_FLOOR + (g.high_pair * 220) + kicker_score + 1
  ELSE LET ks == KickersFrom(rank_counts, {}, 12)
           high_card_score ==
             Choose(Kicker(ks, 1), 5) + Choose(Kicker(ks, 2), 4)
             + Choose(Kicker(ks, 3), 3) + Choose(Kicker(ks, 4), 2)
             + Choose(Kicker(ks, 5), 1)
       IN HIGH_CARD_FLOOR + high_card_score + 1

(***************************************************************************)
(* Packed hands, canonical form and evaluate                               *)
(***************************************************************************)
Suits == 0 .. 3

\* the bit of the card of rank r and suit s: 1ULL << (r + 16 * s)
CardBit(r, s) == r + 16 * s

\* (hand >> (16 * s)) & 0x1FFF
SuitMask(hand, s) == MaskValue({r \in Ranks : CardBit(r, s) \in hand})

get_flush_map_index(hand) ==
  LET fc == SuitMask(hand, 3)
      fd == SuitMask(hand, 2)
      fh == SuitMask(hand, 1)
      fs == SuitMask(hand, 0)
  IN IF Popcount(fc) >= 5 THEN fc
     ELSE IF Popcount(fd) >= 5 THEN fd
     ELSE IF Popcount(fh) >= 5 THEN fh
     ELSE IF Popcount(fs) >= 5 THEN fs
     ELSE 0

combine_hand_board(hand, board) == hand \cup board

RECURSIVE ExtractRanks(_, _)
\* first loop of canonicalize_hand: r = 0..12 outer, s = 0..3 inner, from
\* position k = 4*r + s on
ExtractRanks(hand, k) ==
  IF k > 51 THEN << >>
  ELSE IF CardBit(k \div 4, k % 4) \in hand
  THEN <<k \div 4>> \o ExtractRanks(hand, k + 1)
  ELSE ExtractRanks(hand, k + 1)

\* number of entries equal to ranks[i] before position i: the value of
\* count[rank] when entry i is placed
CountBefore(ranks, i) == Cardinality({k \in 1 .. (i - 1) : ranks[k] = ranks[i]})

\* canonicalize_hand leaving every card in the suit it came in
canonicalize_hand_KeepSuits(hand) ==
  LET ranks == ExtractRanks(hand, 0)
  IN {c \in hand : \E i \in 1 .. 7 : ranks[i] = c % 16}

\* canonicalize_hand on a hand of exactly seven cards (ranks[7] is filled)
canonicalize_hand(hand) ==
  LET ranks == ExtractRanks(hand, 0)
  IN {CardBit(ranks[i], SUIT_PERMUTATION[CountBefore(ranks, i) + 1]) :
        i \in 1 .. 7}

\* current_ranks is a leaf of generate_ranks_recursive: seven ranks, each
\* at least its predecessor (start_rank), no rank more than four times
IsGeneratedLeaf(current_ranks) ==
  /\ Len(current_ranks) = 7
  /\ \A i \in 1 .. 6 : current_ranks[i] <= current_ranks[i + 1]
  /\ \A i \in 1 .. 7 : CountBefore(current_ranks, i) < 4

\* current_hand at that leaf: the cards or-ed in on the way down
GeneratedHand(current_ranks) ==
  {CardBit(current_ranks[i],
           SUIT_PERMUTATION[CountBefore(current_ranks, i) + 1]) : i \in 1 .. 7}

RECURSIVE SortedRanks(_, _)
\* the ranks of a key in non-decreasing order, each as often as it has bits
SortedRanks(key, r) ==
  IF r > 12 THEN << >>
  ELSE [i \in 1 .. Cardinality({s \in Suits : CardBit(r, s) \in key}) |-> r]
       \o SortedRanks(key, r + 1)

\* rank_map / rank_keys after init_rank_map, read as evaluate's probe reads
\* them: the strength stored with the key when a leaf of the enumeration
\* produced it, 0 (the empty slot where the probe stops) when none did
rank_map_lookup(canonical) ==
  LET current_ranks == SortedRanks(canonical, 0)
  IN IF IsGeneratedLeaf(current_ranks)
        /\ GeneratedHand(current_ranks) = canonical
     THEN calculate_rank_strength(current_ranks)
     ELSE 0

evaluate(hand, board) ==
  LET combined == combine_hand_board(hand, board)
      flush_id == get_flush_map_index(combined)
  IN IF flush_id # 0 THEN flush_map[flush_id]
     ELSE rank_map_lookup(canonicalize_hand(combined))

(***************************************************************************)
(* The rank table itself: rank_keys[] and rank_map[] as arrays over        *)
(* 0 .. RANK_MAP_SIZE-1 with {} for the key 0, filled by init_rank_map and *)
(* probed as evaluate probes them.  An array is held as 256 rows of 256    *)
(* slots, slot id being row id / 256, column id % 256.  A 32-bit word is   *)
(* held as its two 16-bit halves so that no product leaves the range of    *)
(* the integers.                                                           *)
(***************************************************************************)
RANK_MAP_SIZE == 65536

\* OMPEVAL_MAGIC = 0xE91AAA35 as its high and low 16 bits
OMPEVAL_MAGIC_HI == 59674
OMPEVAL_MAGIC_LO == 43573

\* (a * b) >> 16 and (a * b) & 0xFFFF for 16-bit a and b
MulHigh16(a, b) == (((a * (b % 256)) \div 256) + a * (b \div 256)) \div 256
MulLow16(a, b) ==
  (a * (b % 256) + ((a * (b \div 256)) % 256) * 256) % 65536

\* folded = (uint32_t)(hand >> 32) ^ (uint32_t)hand, as a set of bits
Folded(hand) ==
  LET lo == {b \in hand : b < 32}
      hi == {b - 32 : b \in {x \in hand : x >= 32}}
  IN (lo \cup hi) \ (lo \cap hi)

\* (uint16_t)((folded * (uint64_t)OMPEVAL_MAGIC) >> 16)
get_rank_hash(hand) ==
  LET folded == Folded(hand)
      fl == MaskValue({b \in folded : b < 16})
      fh == MaskValue({b - 16 : b \in {x \in folded : x >= 16}})
  IN (MulHigh16(fl, OMPEVAL_MAGIC_LO) + MulLow16(fl, OMPEVAL_MAGIC_HI)
      + MulLow16(fh, OMPEVAL_MAGIC_LO)) % 65536

\* array[id]
At(array, id) == array[id \div 256][id % 256]

RECURSIVE Probe(_, _, _)
\* while (rank_keys[id] != 0 && rank_keys[id] != key) id = (id + 1) & MASK
Probe(keys, key, id) ==
  IF At(keys, id) # {} /\ At(keys, id) # key
  THEN Probe(keys, key, (id + 1) % RANK_MAP_SIZE)
  ELSE id

\* the arrays after memset
ZeroTable ==
  [keys |-> [i \in 0 .. 255 |-> [j \in 0 .. 255 |-> {}]],
   map |-> [i \in 0 .. 255 |-> [j \in 0 .. 255 |-> 0]]]

\* depth == 7: probe, and store when the slot is empty
StoreLeaf(tab, current_hand, current_ranks) ==
  LET id == Probe(tab.keys, current_hand, get_rank_hash(current_hand))
  IN IF At(tab.keys, id) = {}
     THEN [keys |-> [tab.keys EXCEPT ![id \div 256][id % 256] = current_hand],
           map |-> [tab.map EXCEPT ![id \div 256][id % 256] =
                      calculate_rank_strength(current_ranks)]]
     ELSE tab

\* if (count >= 4) continue, read as three cards of a rank being the most
RankFull_AtThree(count) == count >= 3

\* if (count >= 4) continue
RankFull(count) == count >= 4

RECURSIVE generate_ranks_recursive(_, _, _, _, _)
RECURSIVE RankLoop(_, _, _, _, _)
\* the call at depth d with the arrays tab; returns the arrays it leaves
generate_ranks_recursive(d, start_rank, current_hand, current_ranks, tab) ==
  IF d = 7 THEN StoreLeaf(tab, current_hand, current_ranks)
  ELSE RankLoop(d, start_rank, current_hand, current_ranks, tab)

\* for (rank = start_rank; rank <= 12; rank++), from rank on
RankLoop(d, rank, current_hand, current_ranks, tab) ==
  IF rank > 12 THEN tab
  ELSE LET count == Cardinality({k \in 1 .. d : current_ranks[k] = rank})
       IN IF RankFull(count)
          THEN RankLoop(d, rank + 1, current_hand, current_ranks, tab)
          ELSE LET new_card == CardBit(rank, SUIT_PERMUTATION[count + 1])
                   after == generate_ranks_recursive(
                              d + 1, rank, current_hand \cup {new_card},
                              Append(current_ranks, rank), tab)
               IN IF DOMAIN after = {} THEN after
                  ELSE RankLoop(d, rank + 1, current_hand, current_ranks,
                                after)

\* init_rank_map(): memset both arrays, then the enumeration from depth 0.
\* The argument is the arrays before the call, which the memset discards.
init_rank_map(tab) == generate_ranks_recursive(0, 0, {}, << >>, ZeroTable)

(***************************************************************************)
(* Rule-book order of poker hands, for comparison with evaluate            *)
(***************************************************************************)
RankOf(card) == card % 16
SuitOf(card) == card \div 16

SetMax(S) == CHOOSE x \in S : \A y \in S : y <= x

SetMin(S) == CHOOSE x \in S : \A y \in S : x <= y

RECURSIVE Digits13(_, _)
\* the keys of S in descending order read as the digits of a base-13 number,
\* most significant first, padded to width w; a key is 13 * count + rank
Digits13(S, w) ==
  IF w = 0 THEN 0
  ELSE IF S = {} THEN 13 * Digits13(S, w - 1)
  ELSE LET k == SetMax(S)
       IN (k % 13) * (13 ^ (w - 1)) + Digits13(S \ {k}, w - 1)

\* a five-card hand as (category, tie-break ranks), encoded as one integer
RuleBook5(cards) ==
  LET rs == {RankOf(c) : c \in cards}
      cnt == [r \in rs |-> Cardinality({c \in cards : RankOf(c) = r})]
      isFlush == Cardinality({SuitOf(c) : c \in cards}) = 1
      wheel == rs = {12, 0, 1, 2, 3}
      isStraight ==
        Cardinality(rs) = 5 /\ (wheel \/ SetMax(rs) - SetMin(rs) = 4)
      top == IF wheel THEN 3 ELSE SetMax(rs)
      shape == {cnt[r] : r \in rs}
      cat == IF isStraight /\ isFlush THEN 8
             ELSE IF 4 \in shape THEN 7
             ELSE IF shape = {3, 2} THEN 6
             ELSE IF isFlush THEN 5
             ELSE IF isStraight THEN 4
             ELSE IF 3 \in shape THEN 3
             ELSE IF Cardinality(rs) = 3 THEN 2
             ELSE IF Cardinality(rs) = 4 THEN 1
             ELSE 0
      tie == IF isStraight THEN top * (13 ^ 4)
             ELSE Digits13({13 * cnt[r] + r : r \in rs}, 5)
  IN cat * (13 ^ 5) + tie

\* the best five-card hand contained in a seven-card hand
RuleBook7(hand) ==
  SetMax({RuleBook5(hand \ {a, b}) : <<a, b>> \in {p \in hand \X hand : p[1] < p[2]}})

(***************************************************************************)
(* Exact arithmetic for the solver's doubles.  A value is a fraction       *)
(* <<numerator, denominator>> in lowest terms with a positive denominator; *)
(* rounding of the binary floating point is outside the model.             *)
(***************************************************************************)
RECURSIVE GCD(_, _)
GCD(a, b) == IF b = 0 THEN a ELSE GCD(b, a % b)

Abs(x) == IF x < 0 THEN -x ELSE x

Frac(n, d) ==
  LET g == GCD(Abs(n), Abs(d))
      sg == IF d < 0 THEN -1 ELSE 1
  IN <<(sg * n) \div g, (sg * d) \div g>>

Zero == <<0, 1>>
One == <<1, 1>>
Half == <<1, 2>>
FromInt(i) == <<i, 1>>

\* sums, products and comparisons cancel common factors before multiplying
FAdd(x, y) ==
  LET g == GCD(x[2], y[2])
  IN Frac(x[1] * (y[2] \div g) + y[1] * (x[2] \div g), (x[2] \div g) * y[2])
FNeg(x) == <<-x[1], x[2]>>
FSub(x, y) == FAdd(x, FNeg(y))
FMul(x, y) ==
  LET g1 == GCD(Abs(x[1]), y[2])
      g2 == GCD(Abs(y[1]), x[2])
  IN Frac((x[1] \div g1) * (y[1] \div g2), (x[2] \div g2) * (y[2] \div g1))
FDiv(x, y) == Frac(x[1] * y[2], x[2] * y[1])
FLt(x, y) ==
  LET g == GCD(x[2], y[2])
  IN x[1] * (y[2] \div g) < y[1] * (x[2] \div g)
FGt(x, y) == FLt(y, x)

(***************************************************************************)
(* CFR engine: constants and action layout                                 *)
(***************************************************************************)
MAX_BET_SIZES == 4
MAX_ACTIONS == 3 + 2 * MAX_BET_SIZES
MAX_HISTORY == 10
MAX_RAISES == 2
MAX_DEPTH == 20

STREET_FLOP == 0
STREET_TURN == 1
STREET_RIVER == 2

Actions == 0 .. (MAX_ACTIONS - 1)

ACT_CHECK == 0
ACT_FOLD(sz) == sz + 1
ACT_CALL(sz) == sz + 2
ACT_RAISE(sz, i) == sz + 3 + i
ACT_BET(sz, i) == 1 + i
IS_CHECK(a, nsz) == a = 0
IS_BET(a, nsz) == a >= 1 /\ a < 1 + nsz
IS_FOLD(a, nsz) == a = 1 + nsz
IS_CALL(a, nsz) == a = 2 + nsz
IS_RAISE(a, nsz) == a >= 3 + nsz /\ a < 3 + 2 * nsz
BET_INDEX(a, nsz) == a - 1
RAISE_INDEX(a, nsz) == a - 3 - nsz

\* actions[num_actions - 1] and actions[num_actions - 2] of an infoset
LastAction(iset) == iset.actions[Len(iset.actions)]
PrevAction(iset) == iset.actions[Len(iset.actions) - 1]

facing_bet(solver, iset) ==
  IF Len(iset.actions) = 0 THEN FALSE
  ELSE LET last == LastAction(iset)
           nsz == solver.num_bet_sizes
       IN IS_BET(last, nsz) \/ IS_RAISE(last, nsz)

\* raise_count that leaves the last action of the history out of the count
raise_count_SkipsLast(solver, iset) ==
  Cardinality({i \in 1 .. (Len(iset.actions) - 1) :
                 IS_RAISE(iset.actions[i], solver.num_bet_sizes)})

raise_count(solver, iset) ==
  Cardinality({i \in 1 .. Len(iset.actions) :
                 IS_RAISE(iset.actions[i], solver.num_bet_sizes)})

\* legal_actions with the raise cap tested by <= instead of <
legal_actions_CapOffByOne(solver, iset) ==
  LET nsz == solver.num_bet_sizes
  IN IF ~facing_bet(solver, iset)
     THEN <<ACT_CHECK>> \o [i \in 1 .. nsz |-> ACT_BET(nsz, i - 1)]
     ELSE <<ACT_FOLD(nsz), ACT_CALL(nsz)>>
          \o (IF raise_count(solver, iset) <= MAX_RAISES
              THEN [i \in 1 .. nsz |-> ACT_RAISE(nsz, i - 1)]
              ELSE << >>)

\* out_actions[0 .. n-1] as a sequence
legal_actions(solver, iset) ==
  LET nsz == solver.num_bet_sizes
  IN IF ~facing_bet(solver, iset)
     THEN <<ACT_CHECK>> \o [i \in 1 .. nsz |-> ACT_BET(nsz, i - 1)]
     ELSE <<ACT_FOLD(nsz), ACT_CALL(nsz)>>
          \o (IF raise_count(solver, iset) < MAX_RAISES
              THEN [i \in 1 .. nsz |-> ACT_RAISE(nsz, i - 1)]
              ELSE << >>)

\* is_terminal without the CALL case
is_terminal_NoCall(solver, iset, last_act) ==
  LET nsz == solver.num_bet_sizes
  IN \/ IS_FOLD(last_act, nsz)
     \/ (IS_CHECK(last_act, nsz) /\ Len(iset.actions) >= 2
         /\ IS_CHECK(PrevAction(iset), nsz))

is_terminal(solver, iset, last_act) ==
  LET nsz == solver.num_bet_sizes
  IN \/ IS_FOLD(last_act, nsz)
     \/ IS_CALL(last_act, nsz)
     \/ (IS_CHECK(last_act, nsz) /\ Len(iset.actions) >= 2
         /\ IS_CHECK(PrevAction(iset), nsz))

payoff_showdown_bb(hand_p0, hand_p1, board, pot_bb, p0_put_bb) ==
  LET s0 == evaluate(hand_p0, board)
      s1 == evaluate(hand_p1, board)
      winnings == IF s0 > s1 THEN pot_bb
                  ELSE IF s0 < s1 THEN Zero
                  ELSE FMul(pot_bb, Half)
  IN FSub(winnings, p0_put_bb)

payoff_terminal(solver, iset, last_act) ==
  LET nsz == solver.num_bet_sizes
      pot == iset.pot_bb
      p0 == iset.p0_put_bb
  IN IF IS_FOLD(last_act, nsz)
     THEN (IF iset.player = 0 THEN FNeg(p0) ELSE FSub(pot, p0))
     ELSE IF IS_CALL(last_act, nsz)
     THEN payoff_showdown_bb(solver.hand_p0, solver.hand_p1, solver.board,
                             pot, p0)
     ELSE IF IS_CHECK(last_act, nsz) /\ iset.street = STREET_RIVER
     THEN payoff_showdown_bb(solver.hand_p0, solver.hand_p1, solver.board,
                             pot, p0)
     ELSE Zero

\* bet_sizes[i] of the C array (0-based)
BetSize(solver, i) == solver.bet_sizes[i + 1]

\* apply_action whose CALL leaves current_bet_bb standing
apply_action_CallKeepsBet(solver, iset, a) ==
  LET nsz == solver.num_bet_sizes
      pot == iset.pot_bb
      bet == iset.current_bet_bb
      p0 == iset.p0_put_bb
      p1 == iset.p1_put_bb
      pl == iset.player
  IN IF IS_CHECK(a, nsz) THEN iset
     ELSE IF IS_BET(a, nsz)
     THEN LET sz == BetSize(solver, BET_INDEX(a, nsz))
          IN [iset EXCEPT !.pot_bb = FAdd(pot, sz),
                          !.current_bet_bb = sz,
                          !.p0_put_bb = IF pl = 0 THEN FAdd(p0, sz) ELSE p0,
                          !.p1_put_bb = IF pl = 0 THEN p1 ELSE FAdd(p1, sz)]
     ELSE IF IS_FOLD(a, nsz) THEN iset
     ELSE IF IS_CALL(a, nsz)
     THEN [iset EXCEPT !.pot_bb = FAdd(pot, bet),
                       !.p0_put_bb = IF pl = 0 THEN FAdd(p0, bet) ELSE p0,
                       !.p1_put_bb = IF pl = 0 THEN p1 ELSE FAdd(p1, bet)]
     ELSE IF IS_RAISE(a, nsz)
     THEN LET sz == BetSize(solver, RAISE_INDEX(a, nsz))
          IN [iset EXCEPT
                !.pot_bb = FAdd(FAdd(pot, bet), sz),
                !.current_bet_bb = sz,
                !.p0_put_bb = IF pl = 0 THEN FAdd(FAdd(p0, bet), sz) ELSE p0,
                !.p1_put_bb = IF pl = 0 THEN p1 ELSE FAdd(FAdd(p1, bet), sz)]
     ELSE iset

\* apply_action whose RAISE pays the raise size without first matching the bet
apply_action_RaiseSkipsCall(solver, iset, a) ==
  LET nsz == solver.num_bet_sizes
      pot == iset.pot_bb
      bet == iset.current_bet_bb
      p0 == iset.p0_put_bb
      p1 == iset.p1_put_bb
      pl == iset.player
  IN IF IS_BET(a, nsz)
     THEN LET sz == BetSize(solver, BET_INDEX(a, nsz))
          IN [iset EXCEPT !.pot_bb = FAdd(pot, sz),
                          !.current_bet_bb = sz,
                          !.p0_put_bb = IF pl = 0 THEN FAdd(p0, sz) ELSE p0,
                          !.p1_put_bb = IF pl = 0 THEN p1 ELSE FAdd(p1, sz)]
     ELSE IF IS_CALL(a, nsz)
     THEN [iset EXCEPT !.pot_bb = FAdd(pot, bet),
                       !.current_bet_bb = Zero,
                       !.p0_put_bb = IF pl = 0 THEN FAdd(p0, bet) ELSE p0,
                       !.p1_put_bb = IF pl = 0 THEN p1 ELSE FAdd(p1, bet)]
     ELSE IF IS_RAISE(a, nsz)
     THEN LET sz == BetSize(solver, RAISE_INDEX(a, nsz))
          IN [iset EXCEPT
                !.pot_bb = FAdd(pot, sz),
                !.current_bet_bb = sz,
                !.p0_put_bb = IF pl = 0 THEN FAdd(p0, sz) ELSE p0,
                !.p1_put_bb = IF pl = 0 THEN p1 ELSE FAdd(p1, sz)]
     ELSE iset

apply_action(solver, iset, a) ==
  LET nsz == solver.num_bet_sizes
      pot == iset.pot_bb
      bet == iset.current_bet_bb
      p0 == iset.p0_put_bb
      p1 == iset.p1_put_bb
      pl == iset.player
  IN IF IS_CHECK(a, nsz) THEN iset
     ELSE IF IS_BET(a, nsz)
     THEN LET sz == BetSize(solver, BET_INDEX(a, nsz))
          IN [iset EXCEPT !.pot_bb = FAdd(pot, sz),
                          !.current_bet_bb = sz,
                          !.p0_put_bb = IF pl = 0 THEN FAdd(p0, sz) ELSE p0,
                          !.p1_put_bb = IF pl = 0 THEN p1 ELSE FAdd(p1, sz)]
     ELSE IF IS_FOLD(a, nsz) THEN iset
     ELSE IF IS_CALL(a, nsz)
     THEN [iset EXCEPT !.pot_bb = FAdd(pot, bet),
                       !.current_bet_bb = Zero,
                       !.p0_put_bb = IF pl = 0 THEN FAdd(p0, bet) ELSE p0,
                       !.p1_put_bb = IF pl = 0 THEN p1 ELSE FAdd(p1, bet)]
     ELSE IF IS_RAISE(a, nsz)
     THEN LET sz == BetSize(solver, RAISE_INDEX(a, nsz))
          IN [iset EXCEPT
                !.pot_bb = FAdd(FAdd(pot, bet), sz),
                !.current_bet_bb = sz,
                !.p0_put_bb = IF pl = 0 THEN FAdd(FAdd(p0, bet), sz) ELSE p0,
                !.p1_put_bb = IF pl = 0 THEN p1 ELSE FAdd(FAdd(p1, bet), sz)]
     ELSE iset

\* ChildInfoset that opens the turn without handing the action to player 0
ChildInfoset_TurnKeepsPlayer(solver, iset, a) ==
  LET nsz == solver.num_bet_sizes
      applied == apply_action(solver, iset, a)
      next == [applied EXCEPT !.actions = Append(applied.actions, a),
                              !.player = 1 - applied.player]
  IN IF IS_CHECK(a, nsz) /\ Len(next.actions) >= 2 /\ IS_CHECK(PrevAction(next), nsz)
     THEN IF next.street = STREET_FLOP
          THEN [next EXCEPT !.street = STREET_TURN, !.actions = << >>,
                            !.player = 1]
          ELSE IF next.street = STREET_TURN
          THEN [next EXCEPT !.street = STREET_RIVER, !.actions = << >>,
                            !.player = 0]
          ELSE next
     ELSE next

\* the child infoset cfr_recursive builds for a legal action other than FOLD:
\* apply_action, append the action, switch the player, and open the next
\* street when a CHECK answers a CHECK before the river
ChildInfoset(solver, iset, a) ==
  LET nsz == solver.num_bet_sizes
      applied == apply_action(solver, iset, a)
      next == [applied EXCEPT !.actions = Append(applied.actions, a),
                              !.player = 1 - applied.player]
  IN IF IS_CHECK(a, nsz) /\ Len(next.actions) >= 2 /\ IS_CHECK(PrevAction(next), nsz)
     THEN IF next.street = STREET_FLOP
          THEN [next EXCEPT !.street = STREET_TURN, !.actions = << >>,
                            !.player = 0]
          ELSE IF next.street = STREET_TURN
          THEN [next EXCEPT !.street = STREET_RIVER, !.actions = << >>,
                            !.player = 0]
          ELSE next
     ELSE next

\* the terminal test at the head of cfr_recursive
NodeIsTerminal(solver, iset) ==
  Len(iset.actions) > 0 /\ is_terminal(solver, iset, LastAction(iset))

\* a terminal node that re-enters cfr_recursive on the next street instead
\* of returning a payoff (check-check before the river)
NodeAdvances(solver, iset) ==
  /\ NodeIsTerminal(solver, iset)
  /\ IS_CHECK(LastAction(iset), solver.num_bet_sizes)
  /\ iset.street # STREET_RIVER
  /\ Len(iset.actions) >= 2
  /\ IS_CHECK(PrevAction(iset), solver.num_bet_sizes)

\* the value a terminal node returns to its caller
TerminalReturn(solver, iset) ==
  LET pay == payoff_terminal(solver, iset, LastAction(iset))
  IN IF iset.player = 0 THEN pay ELSE FNeg(pay)

(***************************************************************************)
(* Solver construction                                                     *)
(***************************************************************************)
mccfr_create(hand_p0, hand_p1, board) ==
  [hand_p0 |-> hand_p0, hand_p1 |-> hand_p1, board |-> board,
   big_blind |-> One, starting_pot_bb |-> <<3, 2>>,
   bet_sizes |-> <<One>>, num_bet_sizes |-> 1]

\* bet_sizes_bb is the caller's array, read up to num_bet_sizes
mccfr_set_stakes(solver, big_blind, starting_pot_bb, bet_sizes_bb, num_bet_sizes) ==
  IF num_bet_sizes <= 0 \/ num_bet_sizes > MAX_BET_SIZES THEN solver
  ELSE [solver EXCEPT
          !.big_blind = IF FGt(big_blind, Zero) THEN big_blind ELSE One,
          !.starting_pot_bb =
             IF FGt(starting_pot_bb, Zero) THEN starting_pot_bb ELSE <<3, 2>>,
          !.num_bet_sizes = num_bet_sizes,
          !.bet_sizes =
             [i \in 1 .. num_bet_sizes |->
                IF FGt(bet_sizes_bb[i], Zero) THEN bet_sizes_bb[i] ELSE One]]

\* RootInfoset that credits player 1 with the whole starting pot
RootInfoset_P1PutsPot(solver) ==
  [board |-> solver.board, street |-> STREET_FLOP, player |-> 0,
   actions |-> << >>, pot_bb |-> solver.starting_pot_bb,
   current_bet_bb |-> Zero,
   p0_put_bb |-> FMul(solver.starting_pot_bb, Half),
   p1_put_bb |-> solver.starting_pot_bb]

\* the root infoset of mccfr_solve
RootInfoset(solver) ==
  [board |-> solver.board, street |-> STREET_FLOP, player |-> 0,
   actions |-> << >>, pot_bb |-> solver.starting_pot_bb,
   current_bet_bb |-> Zero,
   p0_put_bb |-> FMul(solver.starting_pot_bb, Half),
   p1_put_bb |-> FMul(solver.starting_pot_bb, Half)]

(***************************************************************************)
(* Regret matching and the recursion guards                                *)
(***************************************************************************)
\* x < MCCFR_EPS, with MCCFR_EPS = 1e-10 = 1 / (100000 * 100000)
BelowEps(x) ==
  \/ x[1] <= 0
  \/ /\ x[1] <= 21474
     /\ \/ x[1] * 100000 < x[2] \div 100000
        \/ (x[1] * 100000 = x[2] \div 100000 /\ x[2] % 100000 > 0)

\* the data of a fresh entry: memset(&e->data, 0, sizeof(e->data))
ZeroData ==
  [regrets |-> [a \in Actions |-> Zero],
   strategy_sum |-> [a \in Actions |-> Zero],
   visits |-> 0]

\* a strategy array after memset(strategy, 0, sizeof(strategy))
ZeroStrategy == [a \in Actions |-> Zero]

RECURSIVE PositivePart(_, _, _, _)
\* first loop of regret_matching from legal[i] on: st.strategy and st.sum
PositivePart(data, legal, i, st) ==
  IF i > Len(legal) THEN st
  ELSE LET a == legal[i]
           v == IF FGt(data.regrets[a], Zero) THEN data.regrets[a] ELSE Zero
       IN PositivePart(data, legal, i + 1,
                       [strategy |-> [st.strategy EXCEPT ![a] = v],
                        sum |-> FAdd(st.sum, v)])

\* regret_matching whose uniform branch divides by MAX_ACTIONS
regret_matching_UniformOverAll(data, legal, strategy) ==
  LET st == PositivePart(data, legal, 1, [strategy |-> strategy, sum |-> Zero])
      n_legal == Len(legal)
      isLegal(a) == \E i \in 1 .. n_legal : legal[i] = a
  IN IF FGt(st.sum, Zero)
     THEN [a \in Actions |->
             IF isLegal(a) THEN FDiv(st.strategy[a], st.sum)
             ELSE st.strategy[a]]
     ELSE [a \in Actions |->
             IF isLegal(a) THEN FDiv(One, FromInt(MAX_ACTIONS))
             ELSE st.strategy[a]]

\* regret_matching(data, legal, n_legal, strategy): the strategy array after
\* the call, given the array before it
regret_matching(data, legal, strategy) ==
  LET st == PositivePart(data, legal, 1, [strategy |-> strategy, sum |-> Zero])
      n_legal == Len(legal)
      isLegal(a) == \E i \in 1 .. n_legal : legal[i] = a
  IN IF FGt(st.sum, Zero)
     THEN [a \in Actions |->
             IF isLegal(a) THEN FDiv(st.strategy[a], st.sum)
             ELSE st.strategy[a]]
     ELSE [a \in Actions |->
             IF isLegal(a) THEN FDiv(One, FromInt(n_legal))
             ELSE st.strategy[a]]

(***************************************************************************)
(* The infoset table.  find_or_create compares the full key (infoset_eq)   *)
(* behind the hash, so the table is a map from the stored infosets to      *)
(* their data.                                                             *)
(***************************************************************************)
\* the table after find_or_create(solver, iset): a missing key gets zeroed data
find_or_create(tbl, iset) ==
  IF iset \in DOMAIN tbl THEN tbl
  ELSE [k \in (DOMAIN tbl) \cup {iset} |-> IF k = iset THEN ZeroData ELSE tbl[k]]

RECURSIVE SumStrategySum(_, _)
\* for (a = 0; a < n; a++) sum += data->strategy_sum[a]
SumStrategySum(data, n) ==
  IF n = 0 THEN Zero
  ELSE FAdd(SumStrategySum(data, n - 1), data.strategy_sum[n - 1])

\* out_strategy[] after mccfr_get_strategy(solver, iset, out_strategy)
mccfr_get_strategy(tbl, iset) ==
  IF iset \notin DOMAIN tbl THEN [a \in Actions |-> Zero]
  ELSE LET data == tbl[iset]
           sum == SumStrategySum(data, MAX_ACTIONS)
       IN IF FGt(sum, Zero)
          THEN [a \in Actions |-> FDiv(data.strategy_sum[a], sum)]
          ELSE [a \in Actions |-> FDiv(One, FromInt(MAX_ACTIONS))]

RECURSIVE UpdateData(_, _, _, _, _, _)
\* the last loop of cfr_recursive from legal_list[i] on: regrets and
\* strategy_sum of the node's data
UpdateData(data, fr, cf_reach, reach_act, player_node, i) ==
  IF i > Len(fr.legal_list) THEN data
  ELSE LET a == fr.legal_list[i]
           player_util == IF fr.iset.player = 0 THEN fr.util[a]
                          ELSE FNeg(fr.util[a])
           regret == FSub(player_util, player_node)
       IN UpdateData(
            [data EXCEPT
               !.regrets[a] = FAdd(@, FMul(cf_reach, regret)),
               !.strategy_sum[a] = FAdd(@, FMul(reach_act, fr.strategy[a]))],
            fr, cf_reach, reach_act, player_node, i + 1)

\* a call of cfr_recursive about to run
CallFrame(iset, r0, r1, d) ==
  [iset |-> iset, reach_p0 |-> r0, reach_p1 |-> r1,
   depth |-> d, pc |-> "enter", legal_list |-> << >>,
   strategy |-> ZeroStrategy, util |-> ZeroStrategy, node_util |-> Zero,
   i |-> 1]

\* the stack once the running call has util[a] = v for its current action:
\* node_util += strategy[a] * util[a], and the loop moves to the next i
StoreUtil(stk, v) ==
  LET fr == stk[Len(stk)]
      a == fr.legal_list[fr.i]
  IN [stk EXCEPT ![Len(stk)] =
        [fr EXCEPT !.util[a] = v,
                   !.node_util = FAdd(@, FMul(fr.strategy[a], v)),
                   !.i = @ + 1,
                   !.pc = "loop"]]

\* the stack after the running call returns v to its caller
ReturnTo(stk, v) ==
  LET rest == SubSeq(stk, 1, Len(stk) - 1)
  IN IF rest = << >> THEN rest ELSE StoreUtil(rest, v)

(***************************************************************************)
(* Range parser.  A C string is the sequence of its characters, each a     *)
(* one-character string; "" stands for the terminating '\0'.               *)
(***************************************************************************)
RANKS == <<"2", "3", "4", "5", "6", "7", "8", "9", "T", "J", "Q", "K", "A">>
DIGITS == <<"0", "1", "2", "3", "4", "5", "6", "7", "8", "9">>
MAX_RANGE_HANDS == 1326

\* toupper and tolower on the letters of the range notation
toupper(c) ==
  IF c = "t" THEN "T" ELSE IF c = "j" THEN "J" ELSE IF c = "q" THEN "Q"
  ELSE IF c = "k" THEN "K" ELSE IF c = "a" THEN "A" ELSE IF c = "s" THEN "S"
  ELSE IF c = "o" THEN "O" ELSE c
tolower(c) ==
  IF c = "T" THEN "t" ELSE IF c = "J" THEN "j" ELSE IF c = "Q" THEN "q"
  ELSE IF c = "K" THEN "k" ELSE IF c = "A" THEN "a" ELSE IF c = "S" THEN "s"
  ELSE IF c = "O" THEN "o" ELSE c

\* str[i] with i counted from 0; the terminator at and after strlen
CharAt(str, i) == IF i < Len(str) THEN str[i + 1] ELSE ""

\* rank_to_idx: index in RANKS, -1 when the character is no rank
rank_to_idx(rank) ==
  IF \E i \in 1 .. 13 : RANKS[i] = toupper(rank)
  THEN (CHOOSE i \in 1 .. 13 : RANKS[i] = toupper(rank)) - 1
  ELSE -1

\* strchr and strrchr as offsets from the start of str, -1 for NULL
strchr(str, c) ==
  IF \E i \in 1 .. Len(str) : str[i] = c
  THEN (CHOOSE i \in 1 .. Len(str) :
          str[i] = c /\ \A j \in 1 .. (i - 1) : str[j] # c) - 1
  ELSE -1
strrchr(str, c) ==
  IF \E i \in 1 .. Len(str) : str[i] = c
  THEN (CHOOSE i \in 1 .. Len(str) :
          str[i] = c /\ \A j \in (i + 1) .. Len(str) : str[j] # c) - 1
  ELSE -1

IsDigit(c) == \E i \in 1 .. 10 : DIGITS[i] = c
DigitOf(c) == (CHOOSE i \in 1 .. 10 : DIGITS[i] = c) - 1

RECURSIVE DigitRun(_, _)
\* the number of digits of str from offset i on
DigitRun(str, i) ==
  IF IsDigit(CharAt(str, i)) THEN 1 + DigitRun(str, i + 1) ELSE 0

RECURSIVE DigitsValue(_, _, _)
\* the value of the n digits of str from offset i on
DigitsValue(str, i, n) ==
  IF n = 0 THEN 0
  ELSE 10 * DigitsValue(str, i, n - 1) + DigitOf(CharAt(str, i + n - 1))

\* atof on text that starts with an unsigned decimal number or with no
\* number at all: the longest prefix digits [ '.' digits ], 0.0 when empty
atof(str) ==
  LET n == DigitRun(str, 0)
      m == IF CharAt(str, n) = "." THEN DigitRun(str, n + 1) ELSE 0
  IN Frac(DigitsValue(str, 0, n) * (10 ^ m) + DigitsValue(str, n + 1, m),
          10 ^ m)

\* the percentage rule shared by parse_hand_spec and parse_range: percent
\* when in (1, 100], fraction when in (0, 1], dflt otherwise
PctOf(pct_val, dflt) ==
  IF FGt(pct_val, One) /\ ~FGt(pct_val, FromInt(100))
  THEN FDiv(pct_val, FromInt(100))
  ELSE IF FGt(pct_val, Zero) /\ ~FGt(pct_val, One) THEN pct_val
  ELSE dflt

\* the combinations of a list stored in loop order; each store is skipped
\* once count has reached MAX_RANGE_HANDS
AddHands(range, cards, pct) ==
  LET room == MAX_RANGE_HANDS - range.count
      n == IF Len(cards) < room THEN Len(cards) ELSE room
  IN [range EXCEPT !.hands = @ \o SubSeq(cards, 1, n),
                   !.hand_percentages = @ \o [k \in 1 .. n |-> pct],
                   !.count = @ + n]

\* the (s1, s2) pairs in loop order
PairSuits == <<<<0, 1>>, <<0, 2>>, <<0, 3>>, <<1, 2>>, <<1, 3>>, <<2, 3>>>>
OffSuits ==
  <<<<0, 1>>, <<0, 2>>, <<0, 3>>, <<1, 0>>, <<1, 2>>, <<1, 3>>,
    <<2, 0>>, <<2, 1>>, <<2, 3>>, <<3, 0>>, <<3, 1>>, <<3, 2>>>>

add_pair_hands(range, rank, pct) ==
  AddHands(range, [k \in 1 .. 6 |-> <<rank * 4 + PairSuits[k][1],
                                      rank * 4 + PairSuits[k][2]>>], pct)

add_suited_hands(range, r1, r2, pct) ==
  IF r1 = r2 THEN range
  ELSE AddHands(range,
                [k \in 1 .. 4 |-> <<r1 * 4 + (k - 1), r2 * 4 + (k - 1)>>], pct)

add_offsuit_hands(range, r1, r2, pct) ==
  IF r1 = r2 THEN range
  ELSE AddHands(range, [k \in 1 .. 12 |-> <<r1 * 4 + OffSuits[k][1],
                                            r2 * 4 + OffSuits[k][2]>>], pct)

RECURSIVE PairsFrom(_, _, _)
\* for (r = r1; r < 13; r++) add_pair_hands(range, r, pct)
PairsFrom(range, r, pct) ==
  IF r >= 13 THEN range
  ELSE PairsFrom(add_pair_hands(range, r, pct), r + 1, pct)

RECURSIVE SuitedBelow(_, _, _, _)
\* for (r = 0; r < high; r++) add_suited_hands(range, high, r, pct)
SuitedBelow(range, high, r, pct) ==
  IF r >= high THEN range
  ELSE SuitedBelow(add_suited_hands(range, high, r, pct), high, r + 1, pct)

RECURSIVE OffsuitBelow(_, _, _, _)
\* for (r = 0; r < high; r++) add_offsuit_hands(range, high, r, pct)
OffsuitBelow(range, high, r, pct) ==
  IF r >= high THEN range
  ELSE OffsuitBelow(add_offsuit_hands(range, high, r, pct), high, r + 1, pct)

RECURSIVE BothBelow(_, _, _, _)
\* the default loop: suited then offsuit for every r below high
BothBelow(range, high, r, pct) ==
  IF r >= high THEN range
  ELSE BothBelow(add_offsuit_hands(add_suited_hands(range, high, r, pct),
                                   high, r, pct),
                 high, r + 1, pct)

\* parse_hand_spec(range, spec)
parse_hand_spec(range, spec) ==
  IF Len(spec) < 2 THEN range
  ELSE
  LET at_sign == strchr(spec, "@")
      spec_copy == IF at_sign >= 0 THEN SubSeq(spec, 1, at_sign) ELSE spec
      pct == IF at_sign >= 0
             THEN PctOf(atof(SubSeq(spec, at_sign + 2, Len(spec))), One)
             ELSE One
      r1 == rank_to_idx(CharAt(spec_copy, 0))
      r2 == rank_to_idx(CharAt(spec_copy, 1))
      spec_len == Len(spec_copy)
      is_plus == spec_len > 2 /\ spec_copy[spec_len] = "+"
      is_suited == spec_len > 2 /\ tolower(spec_copy[spec_len]) = "s"
      is_offsuit == spec_len > 2 /\ tolower(spec_copy[spec_len]) = "o"
      high == IF r1 > r2 THEN r1 ELSE r2
      low == IF r1 < r2 THEN r1 ELSE r2
  IN IF r1 < 0 \/ r2 < 0 THEN range
     ELSE IF r1 = r2
     THEN IF is_plus THEN PairsFrom(range, r1, pct)
          ELSE add_pair_hands(range, r1, pct)
     ELSE IF is_suited
     THEN IF is_plus THEN SuitedBelow(range, high, 0, pct)
          ELSE add_suited_hands(range, high, low, pct)
     ELSE IF is_offsuit
     THEN IF is_plus THEN OffsuitBelow(range, high, 0, pct)
          ELSE add_offsuit_hands(range, high, low, pct)
     ELSE IF is_plus THEN BothBelow(range, high, 0, pct)
          ELSE add_offsuit_hands(add_suited_hands(range, high, low, pct),
                                 high, low, pct)

\* the range parse_range starts from: calloc, percentage = 1.0
EmptyRange ==
  [hands |-> << >>, hand_percentages |-> << >>, count |-> 0,
   percentage |-> One]

\* the overall-percentage block of parse_range: the string left for the
\* tokenizer and range->percentage
OverallPercentage(str) ==
  LET last_at == strrchr(str, "@")
      comma_before == strrchr(str, ",")
      rest == SubSeq(str, last_at + 2, Len(str))
  IN IF last_at >= 0
        /\ (comma_before < 0 \/ comma_before > last_at)
        /\ strchr(SubSeq(str, last_at + 1, Len(str)), ",") < 0
     THEN [str |-> SubSeq(str, 1, last_at), percentage |-> PctOf(atof(rest), One)]
     ELSE [str |-> str, percentage |-> One]

RECURSIVE strtok(_, _)
\* the tokens strtok(str, ",") hands out: the non-empty runs between commas
strtok(str, cur) ==
  IF str = << >> THEN (IF cur = << >> THEN << >> ELSE <<cur>>)
  ELSE IF str[1] = ","
  THEN (IF cur = << >> THEN << >> ELSE <<cur>>) \o strtok(Tail(str), << >>)
  ELSE strtok(Tail(str), Append(cur, str[1]))

RECURSIVE TrimLeft(_)
\* while (*token == ' ') token++
TrimLeft(token) ==
  IF token # << >> /\ token[1] = " " THEN TrimLeft(Tail(token)) ELSE token

RECURSIVE TrimRight(_)
\* while (end > token && *end == ' ') *end-- = '\0'
TrimRight(token) ==
  IF Len(token) > 1 /\ token[Len(token)] = " "
  THEN TrimRight(SubSeq(token, 1, Len(token) - 1))
  ELSE token

(***************************************************************************)
(* HandRankGen: the 5-card hand types in rank order and the three tables   *)
(***************************************************************************)
PRIMES == <<2, 3, 5, 7, 11, 13, 17, 19, 23, 29, 31, 37, 41>>
BITMASK_SIZE == 8192

Prime(r) == PRIMES[r + 1]

\* is_straight(bits): a run of five from high = 12 down to 4, or the wheel
is_straight(bits) == HighestRun(bits, 8) >= 0 \/ HasWheel(bits)

prime_prod(r0, r1, r2, r3, r4) ==
  Prime(r0) * Prime(r1) * Prime(r2) * Prime(r3) * Prime(r4)

RECURSIVE BitsProduct(_, _)
\* for (r = 0; r < 13; r++) if (bits & (1 << r)) prod *= PRIMES[r], from r on
BitsProduct(bits, r) ==
  IF r > 12 THEN 1
  ELSE (IF Bit(bits, r) = 1 THEN Prime(r) ELSE 1) * BitsProduct(bits, r + 1)

\* what add_hand stores
Hand(prod, bits, is_flush) ==
  [product |-> prod, rank_bits |-> bits, is_flush |-> is_flush]

RECURSIVE Concat(_)
Concat(ss) == IF ss = << >> THEN << >> ELSE Head(ss) \o Concat(Tail(ss))

\* for (x = hi; x >= lo; x--) Body(x): the hands added, in order
ForDown(hi, lo, Body(_)) == Concat([j \in 1 .. (hi - lo + 1) |-> Body(hi + 1 - j)])

\* the nine runs from ace-high down to six-high, then the wheel
StraightHands(is_flush) ==
  ForDown(12, 4, LAMBDA high :
    <<Hand(BitsProduct(31 * (2 ^ (high - 4)), 0), 31 * (2 ^ (high - 4)),
           is_flush)>>)
  \o <<Hand(prime_prod(12, 3, 2, 1, 0), (2 ^ 12) + 15, is_flush)>>

QuadHands ==
  ForDown(12, 0, LAMBDA q : ForDown(12, 0, LAMBDA k :
    IF k = q THEN << >>
    ELSE <<Hand(Prime(q) * Prime(q) * Prime(q) * Prime(q) * Prime(k),
                (2 ^ q) + (2 ^ k), 0)>>))

FullHouseHands ==
  ForDown(12, 0, LAMBDA t : ForDown(12, 0, LAMBDA p :
    IF p = t THEN << >>
    ELSE <<Hand(Prime(t) * Prime(t) * Prime(t) * Prime(p) * Prime(p),
                (2 ^ t) + (2 ^ p), 0)>>))

\* the five nested loops of the flush and of the high-card section
FiveRankHands(is_flush) ==
  ForDown(12, 4, LAMBDA r0 : ForDown(r0 - 1, 3, LAMBDA r1 :
  ForDown(r1 - 1, 2, LAMBDA r2 : ForDown(r2 - 1, 1, LAMBDA r3 :
  ForDown(r3 - 1, 0, LAMBDA r4 :
    IF is_straight((2 ^ r0) + (2 ^ r1) + (2 ^ r2) + (2 ^ r3) + (2 ^ r4))
    THEN << >>
    ELSE <<Hand(prime_prod(r0, r1, r2, r3, r4),
                (2 ^ r0) + (2 ^ r1) + (2 ^ r2) + (2 ^ r3) + (2 ^ r4),
                is_flush)>>)))))

TripsHands ==
  ForDown(12, 0, LAMBDA t : ForDown(12, 0, LAMBDA k1 :
    IF k1 = t THEN << >>
    ELSE ForDown(k1 - 1, 0, LAMBDA k2 :
      IF k2 = t THEN << >>
      ELSE <<Hand(Prime(t) * Prime(t) * Prime(t) * Prime(k1) * Prime(k2),
                  (2 ^ t) + (2 ^ k1) + (2 ^ k2), 0)>>)))

\* the two-pair section with the kicker loop running upwards
TwoPairHands_KickerUp ==
  ForDown(12, 1, LAMBDA p1 : ForDown(p1 - 1, 0, LAMBDA p2 :
    ForDown(12, 0, LAMBDA x :
      LET k == 12 - x IN
      IF k = p1 \/ k = p2 THEN << >>
      ELSE <<Hand(Prime(p1) * Prime(p1) * Prime(p2) * Prime(p2) * Prime(k),
                  (2 ^ p1) + (2 ^ p2) + (2 ^ k), 0)>>)))

TwoPairHands ==
  ForDown(12, 1, LAMBDA p1 : ForDown(p1 - 1, 0, LAMBDA p2 :
    ForDown(12, 0, LAMBDA k :
      IF k = p1 \/ k = p2 THEN << >>
      ELSE <<Hand(Prime(p1) * Prime(p1) * Prime(p2) * Prime(p2) * Prime(k),
                  (2 ^ p1) + (2 ^ p2) + (2 ^ k), 0)>>)))

OnePairHands ==
  ForDown(12, 0, LAMBDA p : ForDown(12, 0, LAMBDA k1 :
    IF k1 = p THEN << >>
    ELSE ForDown(k1 - 1, 0, LAMBDA k2 :
      IF k2 = p THEN << >>
      ELSE ForDown(k2 - 1, 0, LAMBDA k3 :
        IF k3 = p THEN << >>
        ELSE <<Hand(Prime(p) * Prime(p) * Prime(k1) * Prime(k2) * Prime(k3),
                    (2 ^ p) + (2 ^ k1) + (2 ^ k2) + (2 ^ k3), 0)>>))))

\* hands[] after generate_all_hands()
generate_all_hands ==
  StraightHands(1) \o QuadHands \o FullHouseHands \o FiveRankHands(1)
  \o StraightHands(0) \o TripsHands \o TwoPairHands \o OnePairHands
  \o FiveRankHands(0)

\* one pass of the second loop of build_tables for hands[i - 1]
BuildStep(st, hs, i) ==
  LET rank == i
      bits == hs[i].rank_bits
      prod == hs[i].product
      pop == Popcount(bits)
  IN IF hs[i].is_flush # 0
     THEN [st EXCEPT !.flush_table[bits] = rank]
     ELSE IF pop = 5
     THEN [st EXCEPT !.unique5_table[bits] = rank]
     ELSE [st EXCEPT !.product_table =
             Append(@, [product |-> prod, rank |-> rank])]

RECURSIVE BuildLoop(_, _, _, _)
\* the passes lo .. hi-1 of that loop, in increasing order
BuildLoop(st, hs, lo, hi) ==
  IF hi <= lo THEN st
  ELSE IF hi - lo = 1 THEN BuildStep(st, hs, lo)
  ELSE LET mid == (lo + hi) \div 2
           left == BuildLoop(st, hs, lo, mid)
       IN IF DOMAIN left = {} THEN left ELSE BuildLoop(left, hs, mid, hi)

\* cmp_products
cmp_products(a, b) == a.product < b.product

\* build_tables(): memset, the loop, qsort
build_tables(hs) ==
  LET st == BuildLoop([flush_table |-> [b \in 0 .. (BITMASK_SIZE - 1) |-> 0],
                       unique5_table |-> [b \in 0 .. (BITMASK_SIZE - 1) |-> 0],
                       product_table |-> << >>],
                      hs, 1, Len(hs) + 1)
  IN [st EXCEPT !.product_table = SortSeq(@, cmp_products)]

RECURSIVE BinarySearch(_, _, _, _)
\* the loop of find_product_rank
BinarySearch(table, prod, lo, hi) ==
  IF lo > hi THEN -1
  ELSE LET mid == (lo + hi) \div 2
       IN IF table[mid + 1].product = prod THEN table[mid + 1].rank
          ELSE IF table[mid + 1].product < prod
          THEN BinarySearch(table, prod, mid + 1, hi)
          ELSE BinarySearch(table, prod, lo, mid - 1)

find_product_rank(table, prod) == BinarySearch(table, prod, 0, Len(table) - 1)

(***************************************************************************)
(* The table evaluator of src/src/Simulator.c.  A card is 4 * rank + suit. *)
(***************************************************************************)
\* bsearch_prod over prod_tbl
RECURSIVE BsearchLoop(_, _, _, _)
BsearchLoop(table, prod, lo, hi) ==
  IF lo > hi THEN 7462
  ELSE LET mid == (lo + hi) \div 2
           mp == table[mid + 1].product
       IN IF mp = prod THEN table[mid + 1].rank
          ELSE IF mp < prod THEN BsearchLoop(table, prod, mid + 1, hi)
          ELSE BsearchLoop(table, prod, lo, mid - 1)

bsearch_prod(tables, prod) ==
  BsearchLoop(tables.product_table, prod, 0, Len(tables.product_table) - 1)

\* eval5 on the five cards cs[1] .. cs[5]
eval5(tables, cs) ==
  LET bits == MaskValue({cs[i] \div 4 : i \in 1 .. 5})
      unique == Popcount(bits)
  IN IF \A i \in 1 .. 4 : cs[i] % 4 = cs[i + 1] % 4
     THEN tables.flush_table[bits]
     ELSE IF unique = 5 THEN tables.unique5_table[bits]
     ELSE bsearch_prod(tables,
                       Prime(cs[1] \div 4) * Prime(cs[2] \div 4)
                       * Prime(cs[3] \div 4) * Prime(cs[4] \div 4)
                       * Prime(cs[5] \div 4))

\* the 21 index sets of the E(...) lines of eval7
FiveOfSeven == {ix \in SUBSET (1 .. 7) : Cardinality(ix) = 5}

Pick(cs, ix) ==
  LET RECURSIVE Asc(_)
      Asc(rest) == IF rest = {} THEN << >>
                   ELSE <<cs[SetMin(rest)]>> \o Asc(rest \ {SetMin(rest)})
  IN Asc(ix)

\* eval7: the lowest eval5 of the 21 five-card subsets, below 9999
eval7(tables, cs) ==
  LET ranks == {9999} \cup {eval5(tables, Pick(cs, ix)) : ix \in FiveOfSeven}
  IN SetMin(ranks)

\* the card of Simulator.c for bit b of a ranks.c hand (rank b % 16 in the
\* nibble group of suit b / 16)
SimCard(b) == 4 * (b % 16) + (b \div 16)

\* a hand of ranks.c as the seven cards eval7 takes, lowest bit first
SimCards(hand) ==
  LET RECURSIVE Asc(_)
      Asc(rest) == IF rest = {} THEN << >>
                   ELSE <<SimCard(SetMin(rest))>> \o Asc(rest \ {SetMin(rest)})
  IN Asc(hand)

(***************************************************************************)
(* The three-action engine of src/src/MCCFR.c: infoset hash and hash table *)
(* A uint64_t is the tuple of its four 16-bit limbs, lowest first.         *)
(***************************************************************************)
ACTION_CHECK_CALL == 0
ACTION_BET_RAISE == 1
ACTION_FOLD == 2
\* MAX_ACTIONS of MCCFR.h
ENGINE_MAX_ACTIONS == 3
EngineActions == 0 .. (ENGINE_MAX_ACTIONS - 1)
LOAD_FACTOR == <<3, 4>>

\* (uint64_t)i of an int i: sign extension
U64(i) ==
  <<i % 65536, (i \div 65536) % 65536,
    IF i < 0 THEN 65535 ELSE 0, IF i < 0 THEN 65535 ELSE 0>>

\* (uint64_t)s of a Street: the enum has no negative enumerator and is an
\* unsigned int, so the conversion extends with zeros
U64OfStreet(s) == <<s % 65536, (s \div 65536) % 65536, 0, 0>>

U64Zero == <<0, 0, 0, 0>>

\* a + b modulo 2^64
Add64(a, b) ==
  LET s1 == a[1] + b[1]
      s2 == a[2] + b[2] + (s1 \div 65536)
      s3 == a[3] + b[3] + (s2 \div 65536)
      s4 == a[4] + b[4] + (s3 \div 65536)
  IN <<s1 % 65536, s2 % 65536, s3 % 65536, s4 % 65536>>

RECURSIVE Xor16(_, _, _)
\* a ^ b on the lowest n bits of two limbs
Xor16(a, b, n) ==
  IF n = 0 THEN 0
  ELSE ((a + b) % 2) + 2 * Xor16(a \div 2, b \div 2, n - 1)

Xor64(a, b) == [i \in 1 .. 4 |-> Xor16(a[i], b[i], 16)]

\* a << 6 and a >> 2
Shl6(a) ==
  [i \in 1 .. 4 |->
     ((a[i] * 64) % 65536) + (IF i = 1 THEN 0 ELSE a[i - 1] \div 1024)]
Shr2(a) ==
  [i \in 1 .. 4 |->
     (a[i] \div 4) + (IF i = 4 THEN 0 ELSE (a[i + 1] % 4) * 16384)]

\* 0x9e3779b9
HashGolden == <<31161, 40503, 0, 0>>

hash_combine(a, b) ==
  Xor64(a, Add64(Add64(Add64(b, HashGolden), Shl6(a)), Shr2(a)))

RECURSIVE HashBoard(_, _, _)
\* the board loop of mccfr_hash_infoset from card i on: cards below 0 are
\* left out
HashBoard(iset, i, hash) ==
  IF i > 5 THEN hash
  ELSE HashBoard(iset, i + 1,
                 IF iset.board_cards[i] >= 0
                 THEN hash_combine(hash, U64(iset.board_cards[i])) ELSE hash)

RECURSIVE HashHistory(_, _, _)
\* the history loop of mccfr_hash_infoset from action i on
HashHistory(iset, i, hash) ==
  IF i > iset.num_actions \/ i > 10 THEN hash
  ELSE HashHistory(iset, i + 1,
                   hash_combine(hash, U64(iset.action_history[i])))

mccfr_hash_infoset(iset) ==
  LET h0 == HashBoard(iset, 1, U64Zero)
      h1 == hash_combine(h0, U64OfStreet(iset.street))
      h2 == hash_combine(h1, U64(iset.player))
      h3 == hash_combine(h2, U64(iset.num_actions))
  IN HashHistory(iset, 1, h3)

\* hash % capacity for a capacity below 2^15
HashIndex(hash, capacity) ==
  LET r4 == hash[4] % capacity
      r3 == (r4 * 65536 + hash[3]) % capacity
      r2 == (r3 * 65536 + hash[2]) % capacity
  IN (r2 * 65536 + hash[1]) % capacity

\* an InfoSet
InfoSetOf(board_cards, action_history, num_actions, street, player) ==
  [board_cards |-> board_cards, action_history |-> action_history,
   num_actions |-> num_actions, street |-> street, player |-> player]

NoHistory == [i \in 1 .. 10 |-> 0]

\* memset(&data, 0, sizeof(InfoSetData))
ZeroInfoSetData ==
  [regrets |-> [a \in EngineActions |-> Zero],
   strategy |-> [a \in EngineActions |-> Zero],
   strategy_sum |-> [a \in EngineActions |-> Zero],
   visits |-> 0]

\* a HashEntry of calloc
EmptyEntry ==
  [key_hash |-> U64Zero,
   iset |-> InfoSetOf(<<0, 0, 0, 0, 0>>, NoHistory, 0, 0, 0),
   data |-> ZeroInfoSetData]

\* The solver's table: hash_table[0 .. hash_capacity - 1] is slots[1 ..
\* hash_capacity], hash_size is size; alloc numbers the calloc that made the
\* live table, warnings counts the lines written to stderr, exited is set by
\* exit(1); max_capacity stands for MAX_CAPACITY
init_hash_table(capacity, max_capacity) ==
  [slots |-> [i \in 1 .. capacity |-> EmptyEntry], size |-> 0, alloc |-> 0,
   warnings |-> 0, exited |-> FALSE, max_capacity |-> max_capacity]

RECURSIVE ProbeFree(_, _, _, _)
\* the index of the first slot with key_hash 0 from index on, going round
\* the table once; -1 when the probe is back at start_index
ProbeFree(slots, index, start_index, first) ==
  IF ~first /\ index = start_index THEN -1
  ELSE IF slots[index + 1].key_hash = U64Zero THEN index
  ELSE ProbeFree(slots, (index + 1) % Len(slots), start_index, FALSE)

RECURSIVE Rehash(_, _, _)
\* the rehash loop of resize_hash_table from old slot i on; the result is
\* << >> when the new table fills up, which ends the process
Rehash(old_table, i, new_table) ==
  IF i > Len(old_table) \/ new_table = << >> THEN new_table
  ELSE IF old_table[i].key_hash = U64Zero
  THEN Rehash(old_table, i + 1, new_table)
  ELSE LET start_index == HashIndex(old_table[i].key_hash, Len(new_table))
           index == ProbeFree(new_table, start_index, start_index, TRUE)
       IN IF index < 0 THEN << >>
          ELSE Rehash(old_table, i + 1,
                      [new_table EXCEPT ![index + 1] = old_table[i]])

\* <<return value, table>> of resize_hash_table
resize_hash_table(t) ==
  LET old_cap == Len(t.slots)
      new_cap == IF old_cap * 2 > t.max_capacity THEN t.max_capacity
                 ELSE old_cap * 2
      new_table == Rehash(t.slots, 1, [i \in 1 .. new_cap |-> EmptyEntry])
  IN IF old_cap >= t.max_capacity
     THEN <<0, [t EXCEPT !.warnings = @ + 1]>>
     ELSE IF new_table = << >>
     THEN <<0, [t EXCEPT !.warnings = @ + 1, !.exited = TRUE]>>
     ELSE <<1, [t EXCEPT
                  !.slots = new_table,
                  !.size = Cardinality({i \in 1 .. old_cap :
                                          t.slots[i].key_hash # U64Zero}),
                  !.alloc = @ + 1]>>

\* a slot that stops the probing of find_or_create_entry
StopsProbe(t, index, hash) ==
  t.slots[index + 1].key_hash = U64Zero \/ t.slots[index + 1].key_hash = hash

RECURSIVE ProbeAfterResize(_, _, _, _, _, _)
\* the probing loop that follows a successful resize inside the first loop;
\* index -1 stands for exit(1)
ProbeAfterResize(t, hash, index, start_index, attempts, max_attempts) ==
  IF StopsProbe(t, index, hash) \/ attempts >= max_attempts THEN index
  ELSE IF (index + 1) % Len(t.slots) = start_index THEN -1
  ELSE ProbeAfterResize(t, hash, (index + 1) % Len(t.slots), start_index,
                        attempts + 1, max_attempts)

RECURSIVE ProbeEntry(_, _, _, _, _, _)
\* <<index, table>> after the probing loop of find_or_create_entry; index -1
\* stands for exit(1)
ProbeEntry(t, hash, index, start_index, attempts, max_attempts) ==
  IF StopsProbe(t, index, hash) THEN <<index, t>>
  ELSE LET next == (index + 1) % Len(t.slots)
       IN IF next = start_index \/ attempts + 1 >= max_attempts
          THEN LET r == resize_hash_table(t)
                   first == HashIndex(hash, Len(r[2].slots))
                   found == ProbeAfterResize(r[2], hash, first, first, 0,
                                             max_attempts)
               IN IF r[2].exited THEN <<-1, r[2]>>
                  ELSE IF r[1] = 0
                  THEN <<-1, [r[2] EXCEPT !.warnings = @ + 1,
                                          !.exited = TRUE]>>
                  ELSE IF found < 0
                  THEN <<-1, [r[2] EXCEPT !.warnings = @ + 1,
                                          !.exited = TRUE]>>
                  ELSE <<found, r[2]>>
          ELSE ProbeEntry(t, hash, next, start_index, attempts + 1,
                          max_attempts)

\* <<index of the entry returned, table>> of find_or_create_entry; index -1
\* when the process exits
find_or_create_entry(t, iset) ==
  LET grown == IF t.size * LOAD_FACTOR[2] >= Len(t.slots) * LOAD_FACTOR[1]
               THEN resize_hash_table(t)[2] ELSE t
      hash == mccfr_hash_infoset(iset)
      start_index == HashIndex(hash, Len(grown.slots))
      probed == ProbeEntry(grown, hash, start_index, start_index, 0,
                           Len(grown.slots) * 2)
      index == probed[1]
      after == probed[2]
  IN IF grown.exited THEN <<-1, grown>>
     ELSE IF index < 0 THEN probed
     ELSE IF after.slots[index + 1].key_hash = U64Zero
     THEN <<index,
            [after EXCEPT !.slots[index + 1] =
                            [key_hash |-> hash, iset |-> iset,
                             data |-> ZeroInfoSetData],
                          !.size = @ + 1]>>
     ELSE probed

\* action_history[num_actions - 1 - back] of an infoset
HistoryAt(iset, back) == iset.action_history[iset.num_actions - back]

\* is_terminal of MCCFR.c
engine_is_terminal(iset, last_action) ==
  LET check_count ==
        Cardinality({i \in 1 .. iset.num_actions :
                       i <= 10 /\ iset.action_history[i] = ACTION_CHECK_CALL})
  IN \/ last_action = ACTION_FOLD
     \/ /\ iset.street = STREET_RIVER
        /\ iset.num_actions >= 2
        /\ last_action = ACTION_CHECK_CALL
        /\ check_count >= 2
     \/ /\ iset.num_actions >= 2
        /\ HistoryAt(iset, 1) = ACTION_BET_RAISE
        /\ HistoryAt(iset, 0) \in {ACTION_CHECK_CALL, ACTION_FOLD}
     \/ iset.num_actions >= 10

\* the number of board cards mccfr_evaluate_hand accepts
ValidBoardSize(board_cards) ==
  Cardinality({i \in 1 .. 5 : board_cards[i] >= 0 /\ board_cards[i] < 52})

\* evaluate_terminal: a FOLD is worth 1.0; a showdown compares the two
\* values of mccfr_evaluate_hand, which are both 0.5 below three board
\* cards and otherwise come from the hand rank tables, here as showdown, the
\* sign of p0_strength - p1_strength
evaluate_terminal(board_cards, last_action, showdown) ==
  IF last_action = ACTION_FOLD THEN One
  ELSE IF ValidBoardSize(board_cards) < 3 THEN Zero
  ELSE FromInt(showdown)

\* the strategy mccfr_cfr computes from the regrets of its node
EngineStrategy(data) ==
  LET positive == [a \in EngineActions |->
                     IF FGt(data.regrets[a], Zero) THEN data.regrets[a]
                     ELSE Zero]
      normalizing_sum == FAdd(FAdd(positive[0], positive[1]), positive[2])
  IN IF FGt(normalizing_sum, Zero)
     THEN [a \in EngineActions |-> FDiv(positive[a], normalizing_sum)]
     ELSE [a \in EngineActions |-> FDiv(One, FromInt(ENGINE_MAX_ACTIONS))]

\* next_iset of mccfr_cfr for an action other than FOLD
EngineChild(iset, a) ==
  LET appended ==
        IF iset.num_actions < 10
        THEN [iset EXCEPT !.action_history[iset.num_actions + 1] = a,
                          !.num_actions = @ + 1]
        ELSE iset
      next == [appended EXCEPT !.player = 1 - @]
  IN IF /\ a = ACTION_CHECK_CALL
        /\ next.num_actions >= 2
        /\ HistoryAt(next, 1) = ACTION_CHECK_CALL
        /\ HistoryAt(next, 0) = ACTION_CHECK_CALL
        /\ next.street \in {STREET_FLOP, STREET_TURN}
     THEN [next EXCEPT !.street = @ + 1, !.num_actions = 0]
     ELSE next

\* a call of mccfr_cfr about to run; data is the InfoSetData pointer of the
\* call, <<allocation, index>> of the slot it points into
EngineFrame(iset, r0, r1, d) ==
  [iset |-> iset, reach_p0 |-> r0, reach_p1 |-> r1, depth |-> d,
   pc |-> "enter", data |-> <<-1, -1>>, a |-> 0,
   strategy |-> [x \in EngineActions |-> Zero],
   util |-> [x \in EngineActions |-> Zero], node_util |-> Zero]

\* the stack once the running call has util[a] = v for its current action
EngineStoreUtil(stk, v) ==
  LET fr == stk[Len(stk)]
  IN [stk EXCEPT ![Len(stk)] =
        [fr EXCEPT !.util[fr.a] = v,
                   !.node_util = FAdd(@, FMul(fr.strategy[fr.a], v)),
                   !.a = @ + 1,
                   !.pc = "loop"]]

\* the stack after the running call returns v
EngineReturn(stk, v) ==
  LET rest == SubSeq(stk, 1, Len(stk) - 1)
  IN IF rest = << >> THEN rest ELSE EngineStoreUtil(rest, v)

\* the two update loops at the end of mccfr_cfr, on the data of the node
EngineUpdate(data, fr) ==
  LET reach == IF fr.iset.player = 0 THEN fr.reach_p0 ELSE fr.reach_p1
      counterfactual_reach ==
        IF fr.iset.player = 0 THEN fr.reach_p1 ELSE fr.reach_p0
  IN [data EXCEPT
        !.regrets = [a \in EngineActions |->
           FAdd(data.regrets[a],
                FMul(counterfactual_reach, FSub(fr.util[a], fr.node_util)))],
        !.strategy_sum = [a \in EngineActions |->
           FAdd(data.strategy_sum[a], FMul(reach, fr.strategy[a]))]]

\* the normalisation loop of mccfr_solve on one entry
NormalizeEntry(e) ==
  LET sum == FAdd(FAdd(e.data.strategy_sum[0], e.data.strategy_sum[1]),
                  e.data.strategy_sum[2])
  IN IF e.key_hash = U64Zero THEN e
     ELSE IF FGt(sum, Zero)
     THEN [e EXCEPT !.data.strategy =
             [a \in EngineActions |-> FDiv(e.data.strategy_sum[a], sum)]]
     ELSE [e EXCEPT !.data.strategy =
             [a \in EngineActions |-> FDiv(One, FromInt(ENGINE_MAX_ACTIONS))]]

(***************************************************************************)
(* State                                                                   *)
(***************************************************************************)
VARIABLES
  cfr_solver,      \* the mccfr_solver_t: deal, stakes, bet sizes
  node,        \* the infoset cfr_recursive was called with
  reach_p0,    \* its reach arguments
  reach_p1,
  depth,       \* its depth argument
  wpc,         \* position in that call: "enter", "loop", "ret", "folded", "cut"
  legal_list,  \* legal_list[0 .. n_legal-1] once computed
  cfr_strategy,    \* strategy[] once computed
  wret,        \* the value handed to the parent: the call's return value, or
               \* util[a] of the FOLD branch
  h1, h2,      \* two seven-card hands given to evaluate
  strength1, strength2,      \* their strengths, -1 before evaluate has run
  suit_mask,        \* a 13-bit suit suit_mask looked up in flush_map
  fstrength,   \* flush_map[suit_mask], -1 before the lookup
  rm_data,     \* the mccfr_data_t given to regret_matching
  rm_legal,    \* its legal[] argument
  rm_strategy, \* its strategy[] argument, before and after the call
  rm_done,     \* whether regret_matching has run
  sv_solver,   \* the solver mccfr_solve runs on
  sv_table,    \* its table: stored infoset -> mccfr_data_t
  sv_stack,    \* the calls of cfr_recursive in progress, innermost last
  sv_iter,     \* iterations argument of mccfr_solve
  sv_i,        \* the loop counter i of mccfr_solve
  sv_pc,       \* "idle", "solve", "solved" or "queried"
  sv_query,    \* the infoset handed to mccfr_get_strategy
  sv_out,      \* out_strategy[] after mccfr_get_strategy
  rp_str,      \* the range_str argument of parse_range
  rp_range,    \* the HandRange under construction
  rp_tokens,   \* the tokens strtok has still to hand out
  rp_token,    \* the token last given to parse_hand_spec
  rp_before,   \* range->count before that call
  rp_pc,        \* "idle", "call", "loop" or "done"
  rk_keys,   \* rank_keys[], << >> where no table is modelled
  rk_map,   \* rank_map[]
  rk_pc,   \* "idle", "start" (the zeroed arrays) or "ready" (after init_rank_map)
  rk_hand,   \* the seven cards given to evaluate, {} before the call
  rk_id,   \* the slot where the probe of evaluate stopped, -1 when none ran
  rk_ret,   \* what evaluate returned, -1 before the call
  gn_hands,   \* hands[0 .. hand_count-1]
  gn_flush,   \* flush_table[], << >> before build_tables
  gn_unique5,   \* unique5_table[]
  gn_products,   \* product_table[0 .. num_products-1]
  gn_pc,   \* "idle", "start", "generated" or "built"
  gn_i,   \* the index of the hand type last looked up, 0 when none
  gn_rank,   \* the rank the tables gave for it
  en_table,   \* hash_table, hash_size and hash_capacity of the MCCFR.c solver
  en_board,   \* solver->board
  en_street,   \* solver->current_street
  en_showdown,   \* sign of p0_strength - p1_strength on en_board
  en_stack,   \* the calls of mccfr_cfr in progress, innermost last
  en_left,   \* iterations mccfr_solve has still to start
  en_pc,   \* "off", "ready", "cfr", "exit" or "crash"
  en_script,   \* the calls the client has still to make
  en_arg,   \* the InfoSet of the last mccfr_get_or_create
  en_ret,   \* index of the entry it returned, -1 before
  dr_sb,   \* sb_range of TurboFire.c main
  dr_bb,   \* bb_range
  dr_board,   \* board[5] as parse_board left it
  dr_board_size,   \* board_size, -1 for a board that does not parse
  dr_clock,   \* what time(NULL) returns in this run
  dr_run,   \* 1 for the first run of the program, 2 for the run after it
  dr_seed,   \* the static seed of generate_random_board
  dr_rng,   \* the state of rand()
  dr_pc,   \* "off", "start", "street", "cat", "bb", "solve" or "done"
  dr_status,   \* the exit status, -1 while the program runs
  dr_categories,   \* all_categories[0 .. num_all_categories-1]
  dr_street_idx,   \* street_idx
  dr_cat_idx,   \* cat_idx
  dr_bb_idx,   \* bb_idx
  dr_bb_tested,   \* bb_tested
  dr_bb_attempts,   \* bb_attempts
  dr_hero,   \* sb_c0, sb_c1
  dr_villain,   \* bb_c0, bb_c1
  dr_actual,   \* actual_board
  dr_log,   \* the deals this run has passed to the solver
  dr_first,   \* the deals of the first run
  cm_tables,   \* flush_tbl, unique5_tbl and prod_tbl of Simulator.c
  cm_h1,   \* the first seven-card hand
  cm_h2,   \* the second seven-card hand
  cm_rank1,   \* eval7 of the first hand, -1 before
  cm_rank2,   \* eval7 of the second hand
  cm_strength1,   \* evaluate of the first hand
  cm_strength2   \* evaluate of the second hand

walkVars ==
  <<cfr_solver, node, reach_p0, reach_p1, depth, wpc, legal_list, cfr_strategy, wret>>
evalVars == <<h1, h2, strength1, strength2>>
flushVars == <<suit_mask, fstrength>>
rmVars == <<rm_data, rm_legal, rm_strategy, rm_done>>

solveVars ==
  <<sv_solver, sv_table, sv_stack, sv_iter, sv_i, sv_pc, sv_query, sv_out>>

rangeVars == <<rp_str, rp_range, rp_tokens, rp_token, rp_before, rp_pc>>

tableVars == <<rk_keys, rk_map, rk_pc, rk_hand, rk_id, rk_ret>>

genVars == <<gn_hands, gn_flush, gn_unique5, gn_products, gn_pc, gn_i, gn_rank>>

engineVars == <<en_table, en_board, en_street, en_showdown, en_stack, en_left, en_pc, en_script, en_arg, en_ret>>

driverVars == <<dr_sb, dr_bb, dr_board, dr_board_size, dr_clock, dr_run, dr_seed, dr_rng, dr_pc, dr_status, dr_categories, dr_street_idx, dr_cat_idx, dr_bb_idx, dr_bb_tested, dr_bb_attempts, dr_hero, dr_villain, dr_actual, dr_log, dr_first>>

compareVars == <<cm_tables, cm_h1, cm_h2, cm_rank1, cm_rank2, cm_strength1, cm_strength2>>

vars == <<walkVars, evalVars, flushVars, rmVars, solveVars, rangeVars, tableVars, genVars, engineVars, driverVars, compareVars>>

\* the variables each specification leaves alone
exceptWalk == <<evalVars, flushVars, rmVars, solveVars, rangeVars, tableVars, genVars, engineVars, driverVars, compareVars>>
exceptEval == <<walkVars, flushVars, rmVars, solveVars, rangeVars, tableVars, genVars, engineVars, driverVars, compareVars>>
exceptFlush == <<walkVars, evalVars, rmVars, solveVars, rangeVars, tableVars, genVars, engineVars, driverVars, compareVars>>
exceptRm == <<walkVars, evalVars, flushVars, solveVars, rangeVars, tableVars, genVars, engineVars, driverVars, compareVars>>
exceptSolve == <<walkVars, evalVars, flushVars, rmVars, rangeVars, tableVars, genVars, engineVars, driverVars, compareVars>>
exceptRange == <<walkVars, evalVars, flushVars, rmVars, solveVars, tableVars, genVars, engineVars, driverVars, compareVars>>
exceptTable == <<walkVars, evalVars, flushVars, rmVars, solveVars, rangeVars, genVars, engineVars, driverVars, compareVars>>
exceptGen == <<walkVars, evalVars, flushVars, rmVars, solveVars, rangeVars, tableVars, engineVars, driverVars, compareVars>>
exceptEngine == <<walkVars, evalVars, flushVars, rmVars, solveVars, rangeVars, tableVars, genVars, driverVars, compareVars>>
exceptDriver == <<walkVars, evalVars, flushVars, rmVars, solveVars, rangeVars, tableVars, genVars, engineVars, compareVars>>
exceptCompare == <<walkVars, evalVars, flushVars, rmVars, solveVars, rangeVars, tableVars, genVars, engineVars, driverVars>>

(***************************************************************************)
(* Inputs of the solver                                                    *)
(***************************************************************************)
\* cards by name: rank + 16 * suit, suits 0 = spades .. 3 = clubs
Two_s == CardBit(0, 0)
Three_s == CardBit(1, 0)
Four_s == CardBit(2, 0)
Five_s == CardBit(3, 0)
Seven_s == CardBit(5, 0)
Nine_s == CardBit(7, 0)
Qs == CardBit(10, 0)
Ks == CardBit(11, 0)
As == CardBit(12, 0)
Two_h == CardBit(0, 1)
Nine_h == CardBit(7, 1)
Th == CardBit(8, 1)
Jh == CardBit(9, 1)
Qh == CardBit(10, 1)
Kh == CardBit(11, 1)
Ah == CardBit(12, 1)
Two_d == CardBit(0, 2)
Three_d == CardBit(1, 2)
Five_d == CardBit(3, 2)
Qd == CardBit(10, 2)
Kd == CardBit(11, 2)
Ad == CardBit(12, 2)
Three_c == CardBit(1, 3)
Seven_c == CardBit(5, 3)
Nine_c == CardBit(7, 3)
Qc == CardBit(10, 3)
Ac == CardBit(12, 3)

DealBoard == {Ks, Nine_h, Five_d, Three_c, Two_s}

\* fixed deals with a full board: player 0 ahead, player 1 ahead, a tie
Deals ==
  { [hand_p0 |-> {As, Ah}, hand_p1 |-> {Qs, Jh}, board |-> DealBoard],
    [hand_p0 |-> {Qs, Jh}, hand_p1 |-> {As, Ah}, board |-> DealBoard],
    [hand_p0 |-> {As, Qh}, hand_p1 |-> {Ad, Qc}, board |-> DealBoard] }

\* the values a caller passes to mccfr_set_stakes for the starting pot and
\* for the bet sizes; the non-positive ones are replaced by the defaults
PotInputs == {Zero, <<2, 1>>}
BetArrayInputs ==
  { << <<1, 2>>, One, Zero, <<2, 1>> >>,
    << Zero, <<1, 3>>, <<1, 3>>, <<3, 2>> >> }

\* num_bet_sizes arguments, one below and one above the accepted range
NumSizeInputs == 0 .. (MAX_BET_SIZES + 1)

SizeArrays(n) ==
  IF n \in 1 .. MAX_BET_SIZES
  THEN {SubSeq(b, 1, n) : b \in BetArrayInputs}
  ELSE {<< >>}

\* the solver after mccfr_create and mccfr_set_stakes
ConfiguredSolver(deal, pot, sizes, n) ==
  mccfr_set_stakes(mccfr_create(deal.hand_p0, deal.hand_p1, deal.board),
                   One, pot, sizes, n)

NoValue == <<0, 0>>

WalkIdle ==
  /\ cfr_solver = mccfr_create({}, {}, {})
  /\ node = RootInfoset(cfr_solver)
  /\ reach_p0 = One
  /\ reach_p1 = One
  /\ depth = 0
  /\ wpc = "idle"
  /\ legal_list = << >>
  /\ cfr_strategy = ZeroStrategy
  /\ wret = NoValue

EvalIdle == h1 = {} /\ h2 = {} /\ strength1 = -1 /\ strength2 = -1

FlushIdle == suit_mask = 0 /\ fstrength = -1

RmIdle ==
  /\ rm_data = ZeroData
  /\ rm_legal = << >>
  /\ rm_strategy = ZeroStrategy
  /\ rm_done = FALSE

SolveIdle ==
  /\ sv_solver = mccfr_create({}, {}, {})
  /\ sv_table = << >>
  /\ sv_stack = << >>
  /\ sv_iter = 0
  /\ sv_i = 0
  /\ sv_pc = "idle"
  /\ sv_query = RootInfoset(sv_solver)
  /\ sv_out = ZeroStrategy

RangeIdle ==
  /\ rp_str = << >>
  /\ rp_range = EmptyRange
  /\ rp_tokens = << >>
  /\ rp_token = << >>
  /\ rp_before = 0
  /\ rp_pc = "idle"

TableIdle ==
  /\ rk_keys = << >>
  /\ rk_map = << >>
  /\ rk_pc = "idle"
  /\ rk_hand = {}
  /\ rk_id = -1
  /\ rk_ret = -1

GenIdle ==
  /\ gn_hands = << >>
  /\ gn_flush = << >>
  /\ gn_unique5 = << >>
  /\ gn_products = << >>
  /\ gn_pc = "idle"
  /\ gn_i = 0
  /\ gn_rank = 0

EngineIdle ==
  /\ en_table = << >>
  /\ en_board = << >>
  /\ en_street = 0
  /\ en_showdown = 0
  /\ en_stack = << >>
  /\ en_left = 0
  /\ en_pc = "off"
  /\ en_script = << >>
  /\ en_arg = << >>
  /\ en_ret = -1

DriverIdle ==
  /\ dr_sb = << >>
  /\ dr_bb = << >>
  /\ dr_board = << >>
  /\ dr_board_size = 0
  /\ dr_clock = 0
  /\ dr_run = 0
  /\ dr_seed = 0
  /\ dr_rng = 0
  /\ dr_pc = "off"
  /\ dr_status = -1
  /\ dr_categories = << >>
  /\ dr_street_idx = 0
  /\ dr_cat_idx = 0
  /\ dr_bb_idx = 0
  /\ dr_bb_tested = 0
  /\ dr_bb_attempts = 0
  /\ dr_hero = << >>
  /\ dr_villain = << >>
  /\ dr_actual = << >>
  /\ dr_log = << >>
  /\ dr_first = << >>

CompareIdle ==
  /\ cm_tables = << >>
  /\ cm_h1 = {}
  /\ cm_h2 = {}
  /\ cm_rank1 = -1
  /\ cm_rank2 = -1
  /\ cm_strength1 = -1
  /\ cm_strength2 = -1

\* the state of everything a specification does not use
IdleExceptWalk == EvalIdle /\ FlushIdle /\ RmIdle /\ SolveIdle /\ RangeIdle /\ TableIdle /\ GenIdle /\ EngineIdle /\ DriverIdle /\ CompareIdle
IdleExceptEval == WalkIdle /\ FlushIdle /\ RmIdle /\ SolveIdle /\ RangeIdle /\ TableIdle /\ GenIdle /\ EngineIdle /\ DriverIdle /\ CompareIdle
IdleExceptFlush == WalkIdle /\ EvalIdle /\ RmIdle /\ SolveIdle /\ RangeIdle /\ TableIdle /\ GenIdle /\ EngineIdle /\ DriverIdle /\ CompareIdle
IdleExceptRm == WalkIdle /\ EvalIdle /\ FlushIdle /\ SolveIdle /\ RangeIdle /\ TableIdle /\ GenIdle /\ EngineIdle /\ DriverIdle /\ CompareIdle
IdleExceptSolve == WalkIdle /\ EvalIdle /\ FlushIdle /\ RmIdle /\ RangeIdle /\ TableIdle /\ GenIdle /\ EngineIdle /\ DriverIdle /\ CompareIdle
IdleExceptRange == WalkIdle /\ EvalIdle /\ FlushIdle /\ RmIdle /\ SolveIdle /\ TableIdle /\ GenIdle /\ EngineIdle /\ DriverIdle /\ CompareIdle
IdleExceptTable == WalkIdle /\ EvalIdle /\ FlushIdle /\ RmIdle /\ SolveIdle /\ RangeIdle /\ GenIdle /\ EngineIdle /\ DriverIdle /\ CompareIdle
IdleExceptGen == WalkIdle /\ EvalIdle /\ FlushIdle /\ RmIdle /\ SolveIdle /\ RangeIdle /\ TableIdle /\ EngineIdle /\ DriverIdle /\ CompareIdle
IdleExceptEngine == WalkIdle /\ EvalIdle /\ FlushIdle /\ RmIdle /\ SolveIdle /\ RangeIdle /\ TableIdle /\ GenIdle /\ DriverIdle /\ CompareIdle
IdleExceptDriver == WalkIdle /\ EvalIdle /\ FlushIdle /\ RmIdle /\ SolveIdle /\ RangeIdle /\ TableIdle /\ GenIdle /\ EngineIdle /\ CompareIdle
IdleExceptCompare == WalkIdle /\ EvalIdle /\ FlushIdle /\ RmIdle /\ SolveIdle /\ RangeIdle /\ TableIdle /\ GenIdle /\ EngineIdle /\ DriverIdle

(***************************************************************************)
(* Spec: one path of calls of cfr_recursive in the first iteration of      *)
(* mccfr_solve.  The table is fresh, so find_or_create hands every node    *)
(* zeroed data; which child of the action loop is followed is a choice.    *)
(***************************************************************************)
Init ==
  /\ \E deal \in Deals, pot \in PotInputs, n \in NumSizeInputs :
       \E sizes \in SizeArrays(n) :
         cfr_solver = ConfiguredSolver(deal, pot, sizes, n)
  /\ node = RootInfoset(cfr_solver)
  /\ reach_p0 = One
  /\ reach_p1 = One
  /\ depth = 0
  /\ wpc = "enter"
  /\ legal_list = << >>
  /\ cfr_strategy = ZeroStrategy
  /\ wret = NoValue
  /\ IdleExceptWalk

\* the head of cfr_recursive: guards, terminal test, legal actions and
\* regret matching
Visit ==
  /\ wpc = "enter"
  /\ IF depth > MAX_DEPTH \/ BelowEps(reach_p0) \/ BelowEps(reach_p1)
     THEN /\ wpc' = "cut"
          /\ wret' = Zero
          /\ UNCHANGED <<node, depth, legal_list, cfr_strategy>>
     ELSE IF NodeIsTerminal(cfr_solver, node)
     THEN IF NodeAdvances(cfr_solver, node)
          THEN /\ node' = [node EXCEPT !.street = node.street + 1,
                                        !.player = 0, !.actions = << >>]
               /\ depth' = depth + 1
               /\ UNCHANGED <<wpc, wret, legal_list, cfr_strategy>>
          ELSE /\ wpc' = "ret"
               /\ wret' = TerminalReturn(cfr_solver, node)
               /\ UNCHANGED <<node, depth, legal_list, cfr_strategy>>
     ELSE /\ wpc' = "loop"
          /\ legal_list' = legal_actions(cfr_solver, node)
          /\ cfr_strategy' = regret_matching(ZeroData, legal_actions(cfr_solver, node),
                                         ZeroStrategy)
          /\ UNCHANGED <<node, depth, wret>>
  /\ UNCHANGED <<cfr_solver, reach_p0, reach_p1>>
  /\ UNCHANGED exceptWalk

\* one iteration of the action loop: FOLD is paid off in place, any other
\* action recurses into the child
Step(i) ==
  /\ wpc = "loop"
  /\ i \in 1 .. Len(legal_list)
  /\ LET a == legal_list[i] IN
     IF IS_FOLD(a, cfr_solver.num_bet_sizes)
     THEN /\ wpc' = "folded"
          /\ wret' = payoff_terminal(cfr_solver, node, a)
          /\ UNCHANGED <<node, reach_p0, reach_p1, depth, legal_list, cfr_strategy>>
     ELSE /\ node' = ChildInfoset(cfr_solver, node, a)
          /\ reach_p0' = IF node.player = 0 THEN FMul(reach_p0, cfr_strategy[a])
                         ELSE reach_p0
          /\ reach_p1' = IF node.player = 1 THEN FMul(reach_p1, cfr_strategy[a])
                         ELSE reach_p1
          /\ depth' = depth + 1
          /\ wpc' = "enter"
          /\ legal_list' = << >>
          /\ cfr_strategy' = ZeroStrategy
          /\ wret' = NoValue
  /\ UNCHANGED cfr_solver
  /\ UNCHANGED exceptWalk

Next == Visit \/ \E i \in 1 .. MAX_ACTIONS : Step(i)

Spec == Init /\ [][Next]_vars

(***************************************************************************)
(* Properties of the game tree (Spec)                                      *)
(***************************************************************************)
NSizes == cfr_solver.num_bet_sizes
Hist == node.actions
HistLast == Hist[Len(Hist)]
HistPrev == Hist[Len(Hist) - 1]
RaisesInHist ==
  Cardinality({k \in 1 .. Len(Hist) :
                 Hist[k] >= NSizes + 3 /\ Hist[k] <= 2 * NSizes + 2})
\* the last action of the street is a bet or a raise
FacesBet ==
  /\ Len(Hist) > 0
  /\ \/ HistLast \in 1 .. NSizes
     \/ HistLast \in (NSizes + 3) .. (2 * NSizes + 2)
EndsWithCall == Len(Hist) > 0 /\ HistLast = NSizes + 2
EndsWithCheckCheck == Len(Hist) >= 2 /\ HistLast = 0 /\ HistPrev = 0
Offered == {legal_list[k] : k \in 1 .. Len(legal_list)}

\* player 0's profit at a showdown: winnings - p0_put_bb
ShowdownProfitP0 ==
  LET st0 == evaluate(cfr_solver.hand_p0, cfr_solver.board)
      st1 == evaluate(cfr_solver.hand_p1, cfr_solver.board)
      winnings == IF st0 > st1 THEN node.pot_bb
                  ELSE IF st0 < st1 THEN Zero
                  ELSE FDiv(node.pot_bb, <<2, 1>>)
  IN FSub(winnings, node.p0_put_bb)

\* player 0's profit when the acting player folds
FoldProfitP0 ==
  IF node.player = 0 THEN FNeg(node.p0_put_bb)
  ELSE FSub(node.pot_bb, node.p0_put_bb)

\* C3: the utility handed to the parent for every terminal outcome is player
\* 0's profit, whichever player acted last: the fold formula for a FOLD, and
\* winnings - p0_put_bb for a showdown.
C3_TerminalUtilityIsP0Profit ==
  /\ wpc = "folded" => wret = FoldProfitP0
  /\ wpc = "ret" => wret = ShowdownProfitP0

\* C4: at every expanded node the legal actions are exactly CHECK and the n
\* bets when no bet is faced, and exactly FOLD, CALL and (while fewer than
\* MAX_RAISES raises were made on the street) the n raises when a bet or
\* raise is faced; no street history holds more than MAX_RAISES raises.
C4_LegalActionSet ==
  /\ NSizes \in 1 .. MAX_BET_SIZES
  /\ RaisesInHist <= 2
  /\ wpc = "loop" =>
       /\ Cardinality(Offered) = Len(legal_list)
       /\ ~FacesBet => Offered = {0} \cup (1 .. NSizes)
       /\ FacesBet =>
            Offered = {NSizes + 1, NSizes + 2}
                      \cup (IF RaisesInHist < 2
                            THEN (NSizes + 3) .. (2 * NSizes + 2) ELSE {})

\* a node facing a raise of a raise with four bet sizes has been expanded
C4_Witness ==
  /\ wpc = "loop" /\ NSizes = 4 /\ RaisesInHist = 2 /\ FacesBet
  /\ Offered = {5, 6}

SameMoney(x, y) ==
  /\ x.pot_bb = y.pot_bb
  /\ x.current_bet_bb = y.current_bet_bb
  /\ x.p0_put_bb = y.p0_put_bb
  /\ x.p1_put_bb = y.p1_put_bb

\* C6: a step that changes the street moves to the next street (flop to
\* turn, turn to river) from a node whose last action was CHECK, with empty
\* history, acting player 0 and pot, bet and contributions unchanged; a step
\* that keeps the street appends one action, and that action is not a CHECK
\* answering a CHECK before the river.
C6_StreetStep ==
  \/ node' = node
  \/ /\ node'.street = node.street + 1
     /\ node.street \in {STREET_FLOP, STREET_TURN}
     /\ Len(Hist) >= 1 /\ HistLast = 0
     /\ node'.actions = << >>
     /\ node'.player = 0
     /\ SameMoney(node', node)
  \/ /\ node'.street = node.street
     /\ Len(node'.actions) = Len(Hist) + 1
     /\ SubSeq(node'.actions, 1, Len(Hist)) = Hist
     /\ ~(/\ node.street # STREET_RIVER
          /\ node'.actions[Len(Hist) + 1] = 0
          /\ Len(Hist) >= 1 /\ HistLast = 0)

C6_StreetAdvance == [][C6_StreetStep]_vars

\* the river has been opened by two check-check rounds
C6_Witness ==
  /\ node.street = STREET_RIVER /\ Hist = << >> /\ node.player = 0
  /\ depth = 4 /\ wpc = "enter"

\* the money after action a by the acting player, as the pot accounting
\* rules state it
AccountingRule(a) ==
  LET actorPays(x, newBet) ==
        [pot_bb |-> FAdd(node.pot_bb, x),
         current_bet_bb |-> newBet,
         p0_put_bb |-> IF node.player = 0 THEN FAdd(node.p0_put_bb, x)
                       ELSE node.p0_put_bb,
         p1_put_bb |-> IF node.player = 1 THEN FAdd(node.p1_put_bb, x)
                       ELSE node.p1_put_bb]
  IN IF a \in 1 .. NSizes
     THEN actorPays(cfr_solver.bet_sizes[a], cfr_solver.bet_sizes[a])
     ELSE IF a = NSizes + 2
     THEN actorPays(node.current_bet_bb, Zero)
     ELSE IF a \in (NSizes + 3) .. (2 * NSizes + 2)
     THEN actorPays(FAdd(node.current_bet_bb, cfr_solver.bet_sizes[a - NSizes - 2]),
                    cfr_solver.bet_sizes[a - NSizes - 2])
     ELSE actorPays(Zero, node.current_bet_bb)

\* C7: apply_action follows the pot accounting rules for every action of the
\* acting player and leaves the other player's contribution alone.
C7_PotAccounting ==
  \A a \in 0 .. (2 * NSizes + 2) :
     LET next == apply_action(cfr_solver, node, a)
         rule == AccountingRule(a)
     IN /\ next.pot_bb = rule.pot_bb
        /\ next.current_bet_bb = rule.current_bet_bb
        /\ next.p0_put_bb = rule.p0_put_bb
        /\ next.p1_put_bb = rule.p1_put_bb

\* player 1 has called a raise of player 0
C7_Witness ==
  /\ EndsWithCall /\ Len(Hist) = 4 /\ RaisesInHist = 2 /\ node.player = 0
  /\ node.current_bet_bb = Zero /\ FGt(node.p1_put_bb, Half)

EvalDeckA ==
  {Two_s, Three_s, Four_s, Five_s, Seven_s, Th, Jh, Qd, Kd, Ac}
EvalDeckB == {As, Ah, Ad, Ac, Kd, Kh, Nine_c, Two_d, Three_d}
EvalDeckC == {Two_s, Two_h, Five_d, Seven_c, Nine_s, Jh, Kd, Ac}

SevenOf(deck) == {h \in SUBSET deck : Cardinality(h) = 7}

EvalHands == SevenOf(EvalDeckA) \cup SevenOf(EvalDeckB) \cup SevenOf(EvalDeckC)

\* the two hole cards of a seven-card hand: its two lowest bits
HoleOf(h) ==
  LET c1 == SetMin(h) IN {c1, SetMin(h \ {c1})}

InitEval ==
  /\ h1 \in EvalHands
  /\ h2 \in EvalHands
  /\ strength1 = -1
  /\ strength2 = -1
  /\ IdleExceptEval

EvaluateHands ==
  /\ strength1 = -1
  /\ strength1' = evaluate(HoleOf(h1), h1 \ HoleOf(h1))
  /\ strength2' = evaluate(HoleOf(h2), h2 \ HoleOf(h2))
  /\ UNCHANGED <<h1, h2>>
  /\ UNCHANGED exceptEval

NextEval == EvaluateHands

SpecEval == InitEval /\ [][NextEval]_vars

\* the rule-book value of each hand of the family
RuleBookOf == [h \in EvalHands |-> RuleBook7(h)]

\* C1: evaluate is strictly monotone in rule-book order: evaluate(h1) >
\* evaluate(h2) exactly when h1's best five cards beat h2's, and the two are
\* equal exactly when the hands tie.
C1_EvaluateMonotone ==
  strength1 # -1 =>
    /\ (strength1 > strength2) <=> (RuleBookOf[h1] > RuleBookOf[h2])
    /\ (strength1 = strength2) <=> (RuleBookOf[h1] = RuleBookOf[h2])

\* hand_category_t
HIGH_CARD == 0
ONE_PAIR == 1
TWO_PAIR == 2
TRIPS == 3
STRAIGHT == 4
FLUSH == 5
FULL_HOUSE == 6
QUADS == 7
STRAIGHT_FLUSH == 8
ROYAL_FLUSH == 9

hand_category(strength) ==
  IF strength >= STRAIGHT_FLUSH_FLOOR
  THEN (IF strength >= ROYAL_FLUSH_CEILING THEN ROYAL_FLUSH ELSE STRAIGHT_FLUSH)
  ELSE IF strength >= QUADS_FLOOR THEN QUADS
  ELSE IF strength >= FULL_HOUSE_FLOOR THEN FULL_HOUSE
  ELSE IF strength >= FLUSH_FLOOR THEN FLUSH
  ELSE IF strength >= STRAIGHT_FLOOR THEN STRAIGHT
  ELSE IF strength >= TRIPS_FLOOR THEN TRIPS
  ELSE IF strength >= TWO_PAIR_FLOOR THEN TWO_PAIR
  ELSE IF strength >= ONE_PAIR_FLOOR THEN ONE_PAIR
  ELSE HIGH_CARD

\* the category of the best five cards of a hand of the family, in the
\* numbering of hand_category_t
TrueCategory(h) == RuleBookOf[h] \div (13 ^ 5)

\* C14: hand_category(evaluate(h)) is the true category of h, a royal flush
\* counting as a straight flush; so no strength value belongs to two
\* categories.
C14_CategoryOfStrength ==
  strength1 # -1 =>
    (IF hand_category(strength1) = ROYAL_FLUSH THEN STRAIGHT_FLUSH
     ELSE hand_category(strength1)) = TrueCategory(h1)

\* how often each rank occurs in a hand
RankMultiset(h) ==
  [r \in Ranks |-> Cardinality({x \in Suits : CardBit(r, x) \in h})]

\* C17: canonicalize_hand gives two seven-card hands of the same rank
\* multiset the same value; the value is not zero, has bits only in the
\* four 13-bit suit windows, is the key a leaf of generate_ranks_recursive
\* stored (so the probe of evaluate finds a strength for a hand without a
\* flush), and canonicalize_hand leaves it as it is.
C17_CanonicalForm ==
  strength1 # -1 =>
    LET c1 == canonicalize_hand(h1)
        c2 == canonicalize_hand(h2)
    IN /\ (RankMultiset(h1) = RankMultiset(h2)) => (c1 = c2)
       /\ c1 # {}
       /\ c1 \subseteq {CardBit(r, x) : r \in Ranks, x \in Suits}
       /\ IsGeneratedLeaf(SortedRanks(c1, 0))
       /\ c1 = GeneratedHand(SortedRanks(h1, 0))
       /\ (get_flush_map_index(h1) = 0) =>
             /\ strength1 = calculate_rank_strength(SortedRanks(h1, 0))
             /\ strength1 # 0
       /\ canonicalize_hand(c1) = c1

\* two different hands without a flush, of the same rank multiset,
\* evaluated
C17_Witness ==
  /\ strength1 # -1
  /\ h1 # h2
  /\ RankMultiset(h1) = RankMultiset(h2)
  /\ get_flush_map_index(h1) = 0
  /\ canonicalize_hand(h1) # h1

\* four aces with a king kicker, and with a nine kicker
QuadAcesKing == {Ac, Ad, Ah, As, Kd, Two_d, Three_d}
QuadAcesNine == {Ac, Ad, Ah, As, Nine_c, Two_d, Three_d}

\* C18 as stated: four aces with the king kicker evaluate exactly 12 higher
\* than four aces with the nine kicker.
C18_TwelveHigher ==
  (strength1 # -1 /\ h1 = QuadAcesKing /\ h2 = QuadAcesNine) =>
    strength1 = strength2 + 12

\* C18 amended: four aces with the king kicker evaluate exactly 4 higher
\* than four aces with the nine kicker, one for each kicker rank from the
\* nine up to the king.
C18_FourHigher ==
  (strength1 # -1 /\ h1 = QuadAcesKing /\ h2 = QuadAcesNine) =>
    strength1 = strength2 + 4

\* the two hands evaluated
C18_Witness ==
  strength1 # -1 /\ h1 = QuadAcesKing /\ h2 = QuadAcesNine

(***************************************************************************)
(* SpecFlush: the flush table entry of a suit mask                         *)
(***************************************************************************)
InitFlush ==
  /\ suit_mask \in 0 .. (FLUSH_MAP_SIZE - 1)
  /\ fstrength = -1
  /\ IdleExceptFlush

\* the table read of evaluate: return flush_map[flush_id]
FlushLookup ==
  /\ fstrength = -1
  /\ fstrength' = flush_map[suit_mask]
  /\ UNCHANGED suit_mask
  /\ UNCHANGED exceptFlush

NextFlush == FlushLookup

SpecFlush == InitFlush /\ [][NextFlush]_vars

\* the masks of the five-rank subsets of a suit mask m
FiveRankSubsets(m) ==
  {MaskValue(t) : t \in {u \in SUBSET {r \in Ranks : Bit(m, r) = 1} :
                           Cardinality(u) = 5}}

\* C2: for every suit mask m with five or more ranks, flush_map[m] is the
\* strength of the best five-rank subset of m.
C2_FlushBestFive ==
  (fstrength # -1 /\ Popcount(suit_mask) >= 5) =>
     fstrength = SetMax({flush_map[t] : t \in FiveRankSubsets(suit_mask)})

\* the flush test of rank_collision_test: the populated entries counted
FLUSH_TOTAL_COUNT == 7099
flush_count ==
  Cardinality({i \in 0 .. (FLUSH_MAP_SIZE - 1) : flush_map[i] # 0})

\* C16: flush_map[m] is non-zero exactly when m has five or more ranks,
\* and 7,099 entries of the table are non-zero.
C16_FlushNonZero ==
  fstrength # -1 =>
    /\ (fstrength # 0) <=> (Popcount(suit_mask) >= 5)
    /\ flush_count = FLUSH_TOTAL_COUNT

\* a seven-rank mask read from the table
C16_Witness ==
  fstrength # -1 /\ fstrength # 0 /\ Popcount(suit_mask) = 7

(***************************************************************************)
(* SpecRM: regret_matching on stored regrets                               *)
(***************************************************************************)
\* regrets an entry may hold for a legal action
RegretInputs == {<<-1, 1>>, Zero, One, <<3, 1>>}

\* street histories with each kind of legal action set: nothing to face, a
\* bet to face, and a bet raised twice
RmHistories(n) ==
  { << >>, <<ACT_BET(n, 0)>>,
    <<ACT_BET(n, 0), ACT_RAISE(n, 0), ACT_RAISE(n, n - 1)>> }

RmLegalLists ==
  { legal_actions([num_bet_sizes |-> n], [actions |-> hist]) :
      <<n, hist>> \in
        UNION {{<<k, hs>> : hs \in RmHistories(k)} : k \in 1 .. MAX_BET_SIZES} }

SeqRange(q) == {q[k] : k \in 1 .. Len(q)}

InitRM ==
  /\ rm_legal \in RmLegalLists
  /\ \E r \in [SeqRange(rm_legal) -> RegretInputs] :
       rm_data = [ZeroData EXCEPT
                    !.regrets = [a \in Actions |->
                                   IF a \in SeqRange(rm_legal) THEN r[a]
                                   ELSE Zero]]
  /\ rm_strategy = ZeroStrategy
  /\ rm_done = FALSE
  /\ IdleExceptRm

\* memset(strategy, 0, ...); regret_matching(data, legal_list, n_legal, strategy)
ApplyRegretMatching ==
  /\ ~rm_done
  /\ rm_strategy' = regret_matching(rm_data, rm_legal, rm_strategy)
  /\ rm_done' = TRUE
  /\ UNCHANGED <<rm_data, rm_legal>>
  /\ UNCHANGED exceptRm

NextRM == ApplyRegretMatching

SpecRM == InitRM /\ [][NextRM]_vars

RECURSIVE FSum(_, _)
\* the sum of f over the set S
FSum(f, S) ==
  IF S = {} THEN Zero
  ELSE LET x == CHOOSE y \in S : TRUE IN FAdd(f[x], FSum(f, S \ {x}))

\* C10: regret_matching gives 0 to illegal actions; over the legal actions
\* it gives max(regret, 0) divided by the sum of the positive regrets when
\* that sum is positive, and 1 / n_legal when no legal regret is positive.
C10_RegretMatching ==
  rm_done =>
    LET legal == SeqRange(rm_legal)
        pos == [a \in legal |->
                  IF rm_data.regrets[a][1] > 0 THEN rm_data.regrets[a] ELSE Zero]
        total == FSum(pos, legal)
    IN \A a \in Actions :
         IF a \notin legal THEN rm_strategy[a] = Zero
         ELSE IF total[1] > 0 THEN FMul(rm_strategy[a], total) = pos[a]
         ELSE FMul(rm_strategy[a], FromInt(Cardinality(legal))) = One

\* a mixed vector: positive, negative and zero regrets over six legal actions
\* the longest line of one street: CHECK, BET, MAX_RAISES raises and the
\* CALL or FOLD that answers the last one
StreetLineMax == MAX_RAISES + 3

\* C29: with 1 to 4 bet sizes, the action history of every node reachable
\* from the root holds at most StreetLineMax <= MAX_HISTORY actions, a node
\* that appends an action writes below index MAX_HISTORY, and no path makes
\* more than three streets of such lines, so the depth limit never cuts one
C29_HistoryBounded ==
  /\ cfr_solver.num_bet_sizes \in 1 .. MAX_BET_SIZES
  /\ StreetLineMax <= MAX_HISTORY
  /\ Len(node.actions) <= StreetLineMax
  /\ wpc = "loop" => Len(node.actions) < StreetLineMax
  /\ depth <= 3 * StreetLineMax
  /\ 3 * StreetLineMax <= MAX_DEPTH
  /\ wpc # "cut"

\* the longest line: CHECK, BET_3, RAISE_3, RAISE_3 and the CALL, with four
\* bet sizes, on the river after two checked streets
C29_Witness ==
  /\ cfr_solver.num_bet_sizes = MAX_BET_SIZES
  /\ node.street = STREET_RIVER
  /\ node.actions = <<ACT_CHECK, ACT_BET(4, 3), ACT_RAISE(4, 3), ACT_RAISE(4, 3),
                      ACT_CALL(4)>>
  /\ wpc = "ret"

\* what the acting player of a node has put in, and what the opponent has
OwnPut(iset) == IF iset.player = 0 THEN iset.p0_put_bb ELSE iset.p1_put_bb
OppPut(iset) == IF iset.player = 0 THEN iset.p1_put_bb ELSE iset.p0_put_bb

C10_Witness ==
  /\ rm_done /\ Len(rm_legal) = 6
  /\ rm_data.regrets[rm_legal[1]] = <<-1, 1>>
  /\ rm_data.regrets[rm_legal[2]] = <<3, 1>>
  /\ rm_data.regrets[rm_legal[3]] = One
  /\ rm_strategy[rm_legal[2]] = <<3, 4>>
  /\ rm_strategy[rm_legal[1]] = Zero

(***************************************************************************)
(* SpecSolve: mccfr_solve run to completion on a fresh solver, followed by *)
(* mccfr_get_strategy on an infoset of the table.  The recursion of        *)
(* cfr_recursive is the explicit stack sv_stack.                           *)
(***************************************************************************)
\* <<num_bet_sizes, iterations>> of the runs; the exact fractions of longer
\* runs exceed 32-bit integers
SolveRuns == {<<1, 0>>, <<1, 1>>, <<1, 2>>, <<2, 1>>}

InitSolve ==
  /\ \E deal \in Deals, pot \in PotInputs, run \in SolveRuns :
       \E sizes \in SizeArrays(run[1]) :
         /\ sv_solver = ConfiguredSolver(deal, pot, sizes, run[1])
         /\ sv_iter = run[2]
  /\ sv_table = << >>
  /\ sv_stack = << >>
  /\ sv_i = 0
  /\ sv_pc = "solve"
  /\ sv_query = RootInfoset(sv_solver)
  /\ sv_out = ZeroStrategy
  /\ IdleExceptSolve

\* the for loop of mccfr_solve: call cfr_recursive on the root, or return
SolveLoop ==
  /\ sv_pc = "solve"
  /\ sv_stack = << >>
  /\ IF sv_i < sv_iter
     THEN /\ sv_stack' = <<CallFrame(RootInfoset(sv_solver), One, One, 0)>>
          /\ sv_i' = sv_i + 1
          /\ UNCHANGED sv_pc
     ELSE /\ sv_pc' = "solved"
          /\ UNCHANGED <<sv_stack, sv_i>>
  /\ UNCHANGED <<sv_solver, sv_table, sv_iter, sv_query, sv_out>>
  /\ UNCHANGED exceptSolve

\* the head of cfr_recursive: guards, find_or_create, visits++, the terminal
\* test, then legal_actions and regret_matching
Enter ==
  /\ sv_pc = "solve"
  /\ sv_stack # << >>
  /\ LET top == Len(sv_stack)
         fr == sv_stack[top]
         found == find_or_create(sv_table, fr.iset)
         tbl == [found EXCEPT ![fr.iset].visits = @ + 1]
     IN /\ fr.pc = "enter"
        /\ IF fr.depth > MAX_DEPTH
              \/ BelowEps(fr.reach_p0) \/ BelowEps(fr.reach_p1)
           THEN /\ sv_stack' = ReturnTo(sv_stack, Zero)
                /\ UNCHANGED sv_table
           ELSE IF NodeIsTerminal(sv_solver, fr.iset)
           THEN /\ sv_table' = tbl
                /\ IF NodeAdvances(sv_solver, fr.iset)
                   THEN sv_stack' =
                          [sv_stack EXCEPT ![top] =
                             CallFrame([fr.iset EXCEPT !.street = @ + 1,
                                                       !.player = 0,
                                                       !.actions = << >>],
                                       fr.reach_p0, fr.reach_p1, fr.depth + 1)]
                   ELSE sv_stack' =
                          ReturnTo(sv_stack, TerminalReturn(sv_solver, fr.iset))
           ELSE /\ sv_table' = tbl
                /\ sv_stack' =
                     [sv_stack EXCEPT ![top] =
                        [fr EXCEPT
                           !.pc = "loop",
                           !.legal_list = legal_actions(sv_solver, fr.iset),
                           !.strategy =
                              regret_matching(tbl[fr.iset],
                                              legal_actions(sv_solver, fr.iset),
                                              ZeroStrategy)]]
  /\ UNCHANGED <<sv_solver, sv_iter, sv_i, sv_pc, sv_query, sv_out>>
  /\ UNCHANGED exceptSolve

\* one pass of the action loop: FOLD is paid off in place, any other action
\* calls cfr_recursive on the child
LoopStep ==
  /\ sv_pc = "solve"
  /\ sv_stack # << >>
  /\ LET top == Len(sv_stack)
         fr == sv_stack[top]
     IN /\ fr.pc = "loop"
        /\ fr.i <= Len(fr.legal_list)
        /\ LET a == fr.legal_list[fr.i]
               r0 == IF fr.iset.player = 0
                     THEN FMul(fr.reach_p0, fr.strategy[a]) ELSE fr.reach_p0
               r1 == IF fr.iset.player = 1
                     THEN FMul(fr.reach_p1, fr.strategy[a]) ELSE fr.reach_p1
           IN IF IS_FOLD(a, sv_solver.num_bet_sizes)
              THEN sv_stack' =
                     StoreUtil(sv_stack, payoff_terminal(sv_solver, fr.iset, a))
              ELSE sv_stack' =
                     Append([sv_stack EXCEPT ![top].pc = "wait"],
                            CallFrame(ChildInfoset(sv_solver, fr.iset, a),
                                      r0, r1, fr.depth + 1))
  /\ UNCHANGED <<sv_solver, sv_table, sv_iter, sv_i, sv_pc, sv_query, sv_out>>
  /\ UNCHANGED exceptSolve

\* the tail of cfr_recursive: regrets and strategy_sum are updated and
\* node_util is returned
Finish ==
  /\ sv_pc = "solve"
  /\ sv_stack # << >>
  /\ LET fr == sv_stack[Len(sv_stack)]
         cf_reach == IF fr.iset.player = 0 THEN fr.reach_p1 ELSE fr.reach_p0
         reach_act == IF fr.iset.player = 0 THEN fr.reach_p0 ELSE fr.reach_p1
         player_node == IF fr.iset.player = 0 THEN fr.node_util
                        ELSE FNeg(fr.node_util)
     IN /\ fr.pc = "loop"
        /\ fr.i > Len(fr.legal_list)
        /\ sv_table' =
             [sv_table EXCEPT ![fr.iset] =
                UpdateData(@, fr, cf_reach, reach_act, player_node, 1)]
        /\ sv_stack' = ReturnTo(sv_stack, fr.node_util)
  /\ UNCHANGED <<sv_solver, sv_iter, sv_i, sv_pc, sv_query, sv_out>>
  /\ UNCHANGED exceptSolve

\* mccfr_get_strategy on an infoset of the table, after mccfr_solve returned
GetStrategy ==
  /\ sv_pc = "solved"
  /\ \E q \in DOMAIN sv_table :
       /\ sv_query' = q
       /\ sv_out' = mccfr_get_strategy(sv_table, q)
  /\ sv_pc' = "queried"
  /\ UNCHANGED <<sv_solver, sv_table, sv_stack, sv_iter, sv_i>>
  /\ UNCHANGED exceptSolve

NextSolve == SolveLoop \/ Enter \/ LoopStep \/ Finish \/ GetStrategy

SpecSolve == InitSolve /\ [][NextSolve]_vars

\* C9: after mccfr_solve, mccfr_get_strategy on a stored infoset sums to 1
\* over the infoset's legal actions and is 0 on every other action; with an
\* all-zero strategy_sum it is uniform over the legal actions only
C9_StrategyIsDistributionOverLegal ==
  sv_pc = "queried" =>
    LET legal == legal_actions(sv_solver, sv_query)
        legalSet == {legal[k] : k \in 1 .. Len(legal)}
        data == sv_table[sv_query]
    IN /\ FSum(sv_out, legalSet) = One
       /\ \A a \in Actions \ legalSet : sv_out[a] = Zero
       /\ (\A a \in Actions : data.strategy_sum[a] = Zero) =>
            \A a \in legalSet : sv_out[a] = FDiv(One, FromInt(Len(legal)))

(***************************************************************************)
(* The update at the tail of cfr_recursive (SpecSolve)                     *)
(***************************************************************************)
\* the running call has finished its action loop and is about to update
FinishReady ==
  /\ sv_pc = "solve"
  /\ sv_stack # << >>
  /\ sv_stack[Len(sv_stack)].pc = "loop"
  /\ sv_stack[Len(sv_stack)].i > Len(sv_stack[Len(sv_stack)].legal_list)

\* the reaches cfr_recursive passes to the child of action a
ChildReach(fr, a) ==
  <<IF fr.iset.player = 0 THEN FMul(fr.reach_p0, fr.strategy[a]) ELSE fr.reach_p0,
    IF fr.iset.player = 1 THEN FMul(fr.reach_p1, fr.strategy[a]) ELSE fr.reach_p1>>

\* the child of action a is a showdown that is evaluated, not cut off
ChildIsShowdown(fr, a) ==
  LET child == ChildInfoset(sv_solver, fr.iset, a)
  IN /\ ~IS_FOLD(a, sv_solver.num_bet_sizes)
     /\ fr.depth + 1 <= MAX_DEPTH
     /\ ~BelowEps(ChildReach(fr, a)[1])
     /\ ~BelowEps(ChildReach(fr, a)[2])
     /\ NodeIsTerminal(sv_solver, child)
     /\ ~NodeAdvances(sv_solver, child)

\* u_a in player 0's view: player 0's payoff where action a ends the hand,
\* the value the child call returned elsewhere
UtilP0(fr, a) ==
  IF IS_FOLD(a, sv_solver.num_bet_sizes)
  THEN payoff_terminal(sv_solver, fr.iset, a)
  ELSE IF ChildIsShowdown(fr, a)
  THEN LET child == ChildInfoset(sv_solver, fr.iset, a)
       IN payoff_terminal(sv_solver, child, LastAction(child))
  ELSE fr.util[a]

RECURSIVE WeightedSum(_, _, _)
\* sum over legal_list[1 .. n] of strategy[a] * u[a]
WeightedSum(fr, u, n) ==
  IF n = 0 THEN Zero
  ELSE FAdd(WeightedSum(fr, u, n - 1),
            FMul(fr.strategy[fr.legal_list[n]], u[fr.legal_list[n]]))

\* a value of player 0's view seen by player p
ViewOf(p, u) == IF p = 0 THEN u ELSE FNeg(u)

\* the data the vanilla update leaves at the node, given the values u[a]
VanillaUpdate(data, fr, u) ==
  LET p == fr.iset.player
      legalSet == {fr.legal_list[k] : k \in 1 .. Len(fr.legal_list)}
      cf_reach == IF p = 0 THEN fr.reach_p1 ELSE fr.reach_p0
      own_reach == IF p = 0 THEN fr.reach_p0 ELSE fr.reach_p1
      node_u == WeightedSum(fr, u, Len(fr.legal_list))
  IN [data EXCEPT
        !.regrets = [a \in Actions |->
           IF a \in legalSet
           THEN FAdd(data.regrets[a],
                     FMul(cf_reach, FSub(ViewOf(p, u[a]), ViewOf(p, node_u))))
           ELSE data.regrets[a]],
        !.strategy_sum = [a \in Actions |->
           IF a \in legalSet
           THEN FAdd(data.strategy_sum[a], FMul(own_reach, fr.strategy[a]))
           ELSE data.strategy_sum[a]]]

\* the tail of cfr_recursive is the vanilla update on the values the action
\* loop stored in util[], whatever their sign
UpdateUsesStoredUtil ==
  FinishReady /\ sv_stack' # sv_stack =>
    LET fr == sv_stack[Len(sv_stack)]
    IN sv_table'[fr.iset] = VanillaUpdate(sv_table[fr.iset], fr, fr.util)

StoredUtilUpdate == [][UpdateUsesStoredUtil]_vars

\* C28: when a non-terminal node finishes, regrets[a] of every legal action
\* grows by the opponent's reach times (u_a - u) seen by the acting player,
\* with u_a and u = sum strategy[a] * u_a in player 0's view; strategy_sum[a]
\* grows by the acting player's reach times strategy[a]; the entries of
\* actions that are not legal keep their value
C28_VanillaStep ==
  FinishReady /\ sv_stack' # sv_stack =>
    LET fr == sv_stack[Len(sv_stack)]
        u == [a \in Actions |-> UtilP0(fr, a)]
    IN \* the values u[a] are tabulated first, then used
       /\ u = u
       /\ sv_table'[fr.iset] = VanillaUpdate(sv_table[fr.iset], fr, u)

C28_VanillaCfrUpdate == [][C28_VanillaStep]_vars

(***************************************************************************)
(* SpecRange: parse_range on a range string                                *)
(***************************************************************************)
\* hand specs: pairs, suited, offsuit and unmarked hands with and without
\* '+', per-hand percentages, blanks to trim, and text that is no hand
HandSpecInputs ==
  { <<"2", "2", "+">>, <<"T", "T">>, <<"A", "2", "s", "+">>,
    <<"K", "9", "s", "+">>, <<"K", "Q", "s">>, <<"A", "2", "o", "+">>,
    <<"T", "8", "o">>, <<"a", "k">>, <<"Q", "J", "+">>,
    <<"A", "8", "s", "@", "5", "0", "%">>, <<"7", "7", "@", "0", ".", "5">>,
    <<" ", "9", "9", " ">>, <<"Z", "Z">>, <<"A">> }

\* what may follow the last spec: nothing, or an overall percentage
SuffixInputs ==
  { << >>, <<"@", "7", "0", "%">>, <<"@", "0", ".", "7">>, <<"@", "1", "5", "0">> }

RangeStrings ==
  {<< >>}
  \cup {a \o x : a \in HandSpecInputs, x \in SuffixInputs}
  \cup {a \o <<",">> \o b \o x :
          a \in HandSpecInputs, b \in HandSpecInputs, x \in SuffixInputs}

InitRange ==
  /\ rp_str \in RangeStrings
  /\ rp_range = EmptyRange
  /\ rp_tokens = << >>
  /\ rp_token = << >>
  /\ rp_before = 0
  /\ rp_pc = "call"
  /\ IdleExceptRange

\* parse_range up to the first strtok: the empty string returns at once,
\* otherwise the overall percentage is looked for and the string is split
ParseRangeCall ==
  /\ rp_pc = "call"
  /\ IF Len(rp_str) = 0
     THEN /\ rp_pc' = "done"
          /\ UNCHANGED <<rp_range, rp_tokens>>
     ELSE LET ov == OverallPercentage(rp_str)
          IN /\ rp_range' = [rp_range EXCEPT !.percentage = ov.percentage]
             /\ rp_tokens' = strtok(ov.str, << >>)
             /\ rp_pc' = "loop"
  /\ UNCHANGED <<rp_str, rp_token, rp_before>>
  /\ UNCHANGED exceptRange

\* one pass of the token loop: trim, parse_hand_spec, next strtok
ParseToken ==
  /\ rp_pc = "loop"
  /\ rp_tokens # << >>
  /\ LET token == TrimRight(TrimLeft(Head(rp_tokens)))
     IN /\ rp_token' = token
        /\ rp_before' = rp_range.count
        /\ rp_range' = parse_hand_spec(rp_range, token)
  /\ rp_tokens' = Tail(rp_tokens)
  /\ UNCHANGED <<rp_str, rp_pc>>
  /\ UNCHANGED exceptRange

\* strtok returned NULL: free(str); return range
ParseRangeReturn ==
  /\ rp_pc = "loop"
  /\ rp_tokens = << >>
  /\ rp_pc' = "done"
  /\ UNCHANGED <<rp_str, rp_range, rp_tokens, rp_token, rp_before>>
  /\ UNCHANGED exceptRange

NextRange == ParseRangeCall \/ ParseToken \/ ParseRangeReturn

SpecRange == InitRange /\ [][NextRange]_vars

\* the combinations the last parse_hand_spec call stored, as sets of cards
AddedHands ==
  {{rp_range.hands[k][1], rp_range.hands[k][2]} :
     k \in (rp_before + 1) .. rp_range.count}
TokenRank(k) == rank_to_idx(CharAt(rp_token, k))

\* C11: a token XX+ adds exactly the six combinations of every pair from XX
\* up to AA; a token XYs+ with X above Y adds exactly the four suited
\* combinations of X with every lower card of rank at least Y, and no
\* offsuit combination.
C11_PlusExpansion ==
  /\ (/\ Len(rp_token) = 3 /\ rp_token[3] = "+"
      /\ TokenRank(0) >= 0 /\ TokenRank(0) = TokenRank(1))
     => /\ AddedHands =
             {{4 * r + x, 4 * r + y} :
                <<r, x, y>> \in {t \in (TokenRank(0) .. 12) \X Suits \X Suits :
                                   t[2] < t[3]}}
        /\ rp_range.count - rp_before = 6 * (13 - TokenRank(0))
  /\ (/\ Len(rp_token) = 4 /\ rp_token[3] = "s" /\ rp_token[4] = "+"
      /\ TokenRank(1) >= 0 /\ TokenRank(0) > TokenRank(1))
     => /\ AddedHands =
             {{4 * TokenRank(0) + x, 4 * r + x} :
                <<r, x>> \in (TokenRank(1) .. (TokenRank(0) - 1)) \X Suits}
        /\ rp_range.count - rp_before = 4 * (TokenRank(0) - TokenRank(1))

\* C12: every stored combination is two distinct cards in 0..51 with
\* hands[i][0] < hands[i][1], and its weight lies in [0, 1].
C12_HandsOrdered ==
  \A k \in 1 .. rp_range.count :
     /\ rp_range.hands[k][1] \in 0 .. 51
     /\ rp_range.hands[k][2] \in 0 .. 51
     /\ rp_range.hands[k][1] < rp_range.hands[k][2]
     /\ ~FLt(rp_range.hand_percentages[k], Zero)
     /\ ~FGt(rp_range.hand_percentages[k], One)

\* the text after the last '@' of the range string
AfterLastAt == SubSeq(rp_str, strrchr(rp_str, "@") + 2, Len(rp_str))

\* C13: a range string that ends in '@<number>' with no comma after it,
\* the number in (0, 100], comes back with percentage set to that number
\* (as a fraction up to 1, as a percent above).
C13_OverallPercentage ==
  (/\ rp_pc = "done"
   /\ strrchr(rp_str, "@") >= 0
   /\ strchr(AfterLastAt, ",") < 0
   /\ FGt(atof(AfterLastAt), Zero)
   /\ ~FGt(atof(AfterLastAt), FromInt(100)))
  => rp_range.percentage =
       (IF FGt(atof(AfterLastAt), One)
        THEN FDiv(atof(AfterLastAt), FromInt(100))
        ELSE atof(AfterLastAt))

(***************************************************************************)
(* SpecRankMap: init_rank_map on the zeroed arrays, and evaluate reading   *)
(* the arrays as they are when it is called                                *)
(***************************************************************************)
\* a deck with a spade flush in it
ProbeDeck == {Two_s, Three_s, Four_s, Five_s, Seven_s, Th, Jh, Qd}
ProbeHands ==
  SevenOf(EvalDeckB) \cup SevenOf(EvalDeckC) \cup SevenOf(ProbeDeck)

\* program start: both arrays are static storage, all zero
InitRankMapSpec ==
  /\ rk_keys = ZeroTable.keys
  /\ rk_map = ZeroTable.map
  /\ rk_pc = "start"
  /\ rk_hand = {}
  /\ rk_id = -1
  /\ rk_ret = -1
  /\ IdleExceptTable

InitRankMap ==
  /\ rk_pc = "start"
  /\ rk_hand = {}
  /\ \E tab \in {init_rank_map([keys |-> rk_keys, map |-> rk_map])} :
       rk_keys' = tab.keys /\ rk_map' = tab.map
  /\ rk_pc' = "ready"
  /\ UNCHANGED <<rk_hand, rk_id, rk_ret>>
  /\ UNCHANGED exceptTable

\* evaluate(hand, board) on the arrays of the moment
EvaluateOnTable ==
  /\ rk_hand = {}
  /\ \E h \in ProbeHands :
       LET combined == combine_hand_board(HoleOf(h), h \ HoleOf(h))
           flush_id == get_flush_map_index(combined)
           canonical == canonicalize_hand(combined)
           id == Probe(rk_keys, canonical, get_rank_hash(canonical))
       IN /\ rk_hand' = combined
          /\ IF flush_id # 0
             THEN rk_id' = -1 /\ rk_ret' = flush_map[flush_id]
             ELSE rk_id' = id /\ rk_ret' = At(rk_map, id)
  /\ UNCHANGED <<rk_keys, rk_map, rk_pc>>
  /\ UNCHANGED exceptTable

NextRankMap == InitRankMap \/ EvaluateOnTable

SpecRankMap == InitRankMapSpec /\ [][NextRankMap]_vars

\* the rank test of rank_collision_test: the populated slots
RANK_TOTAL_COUNT == 49205
Populated == {i \in 0 .. (RANK_MAP_SIZE - 1) : At(rk_map, i) # 0}

RECURSIVE MultisetCount(_, _)
\* the number of ways to take n cards of the ranks r .. 12, at most four
\* of a rank
MultisetCount(r, n) ==
  IF n = 0 THEN 1
  ELSE IF r > 12 THEN 0
  ELSE MultisetCount(r + 1, n) + (IF n >= 1 THEN MultisetCount(r + 1, n - 1) ELSE 0)
       + (IF n >= 2 THEN MultisetCount(r + 1, n - 2) ELSE 0)
       + (IF n >= 3 THEN MultisetCount(r + 1, n - 3) ELSE 0)
       + (IF n >= 4 THEN MultisetCount(r + 1, n - 4) ELSE 0)

\* C15: after init_rank_map exactly 49,205 slots are populated, as many as
\* there are seven-card rank multisets with at most four cards of a rank;
\* the populated slots are the slots with a key, every key is the canonical
\* key of its own multiset and is stored once, and the probe that starts at
\* the hash of a stored key ends at the slot that holds it.
C15_RankTable ==
  (rk_pc = "ready" /\ rk_hand = {}) =>
    /\ Cardinality(Populated) = RANK_TOTAL_COUNT
    /\ MultisetCount(0, 7) = RANK_TOTAL_COUNT
    /\ Populated = {i \in 0 .. (RANK_MAP_SIZE - 1) : At(rk_keys, i) # {}}
    /\ Cardinality({At(rk_keys, i) : i \in Populated}) = Cardinality(Populated)
    /\ \A i \in Populated :
         /\ IsGeneratedLeaf(SortedRanks(At(rk_keys, i), 0))
         /\ GeneratedHand(SortedRanks(At(rk_keys, i), 0)) = At(rk_keys, i)
         /\ Probe(rk_keys, At(rk_keys, i), get_rank_hash(At(rk_keys, i))) = i

\* the arrays filled, some key stored away from its hash by a collision
C15_Witness ==
  /\ rk_pc = "ready" /\ rk_hand = {}
  /\ \E i \in 0 .. 255 :
       At(rk_keys, i) # {} /\ get_rank_hash(At(rk_keys, i)) # i

\* C19: evaluate never returns a value to its caller when its probe has
\* stopped at an empty slot.
C19_MissNeverReturned ==
  ~(rk_id # -1 /\ At(rk_keys, rk_id) = {} /\ rk_ret # -1)

(***************************************************************************)
(* SpecGen: main of HandRankGen: generate_all_hands, build_tables, and a   *)
(* rank looked up in the tables as verify looks ranks up                   *)
(***************************************************************************)
\* the first and the last rank of every section, their neighbours, and
\* every fiftieth rank
LookupRanks ==
  {1, 9, 10, 11, 12, 166, 167, 322, 323, 1599, 1600, 1609, 1610, 2467, 2468,
   3325, 3326, 6185, 6186, 7462}
  \cup {50 * n : n \in 1 .. 149}

InitGen ==
  /\ gn_hands = << >>
  /\ gn_flush = << >>
  /\ gn_unique5 = << >>
  /\ gn_products = << >>
  /\ gn_pc = "start"
  /\ gn_i = 0
  /\ gn_rank = 0
  /\ IdleExceptGen

GenerateAllHands ==
  /\ gn_pc = "start"
  /\ gn_hands' = generate_all_hands
  /\ gn_pc' = "generated"
  /\ UNCHANGED <<gn_flush, gn_unique5, gn_products, gn_i, gn_rank>>
  /\ UNCHANGED exceptGen

BuildTables ==
  /\ gn_pc = "generated"
  /\ \E st \in {build_tables(gn_hands)} :
       /\ gn_flush' = st.flush_table
       /\ gn_unique5' = st.unique5_table
       /\ gn_products' = st.product_table
  /\ gn_pc' = "built"
  /\ UNCHANGED <<gn_hands, gn_i, gn_rank>>
  /\ UNCHANGED exceptGen

\* the table that holds a hand type, read as verify reads it
TableRank(hand) ==
  IF hand.is_flush # 0 THEN gn_flush[hand.rank_bits]
  ELSE IF Popcount(hand.rank_bits) = 5 THEN gn_unique5[hand.rank_bits]
  ELSE find_product_rank(gn_products, hand.product)

LookupHand ==
  /\ gn_pc = "built"
  /\ gn_i = 0
  /\ \E i \in LookupRanks :
       /\ gn_i' = i
       /\ gn_rank' = TableRank(gn_hands[i])
  /\ UNCHANGED <<gn_hands, gn_flush, gn_unique5, gn_products, gn_pc>>
  /\ UNCHANGED exceptGen

NextGen == GenerateAllHands \/ BuildTables \/ LookupHand

SpecGen == InitGen /\ [][NextGen]_vars

RECURSIVE Multiplicity(_, _)
\* how often the prime p divides n
Multiplicity(n, p) == IF n % p = 0 THEN 1 + Multiplicity(n \div p, p) ELSE 0

\* the ranks of a hand type in ascending order, each as often as it occurs:
\* from the bits for five different ranks, from the product otherwise
TypeRanks(hand) ==
  Concat([j \in 1 .. 13 |->
            [x \in 1 .. (IF Popcount(hand.rank_bits) = 5
                         THEN Bit(hand.rank_bits, j - 1)
                         ELSE Multiplicity(hand.product, PRIMES[j])) |-> j - 1]])

\* five cards of the type: one suit for a flush, suits in turn otherwise
TypeCards(hand) ==
  {CardBit(TypeRanks(hand)[j], IF hand.is_flush # 0 THEN 0 ELSE j % 4) :
     j \in 1 .. Len(TypeRanks(hand))}

\* the number of 5-card hand types: rank multisets of five cards with at
\* most four of a rank, and the five-rank sets once more as flushes
HandTypeCount ==
  MultisetCount(0, 5) + Cardinality({t \in SUBSET Ranks : Cardinality(t) = 5})

\* C20: the generator emits 7,462 hand types, as many as there are; each is
\* five cards, strictly better by the rule book than the next, so none is
\* emitted twice or left out, and rank i is the i-th best; a flush type is
\* found in flush_table, a non-flush type of five ranks in unique5_table,
\* any other in the product table, whose products are pairwise different
\* and fit in a signed 32-bit integer; no table holds anything else.
C20_HandRankTables ==
  /\ (gn_pc = "built" /\ gn_i = 0) =>
       /\ Len(gn_hands) = HandTypeCount
       /\ Len(gn_hands) = 7462
       /\ \A i \in 1 .. Len(gn_hands) :
            /\ Cardinality(TypeCards(gn_hands[i])) = 5
            /\ gn_hands[i].product =
                 prime_prod(TypeRanks(gn_hands[i])[1], TypeRanks(gn_hands[i])[2],
                            TypeRanks(gn_hands[i])[3], TypeRanks(gn_hands[i])[4],
                            TypeRanks(gn_hands[i])[5])
            /\ {r \in Ranks : Bit(gn_hands[i].rank_bits, r) = 1}
                 = {RankOf(c) : c \in TypeCards(gn_hands[i])}
            /\ gn_hands[i].product > 0 /\ gn_hands[i].product <= 2147483647
            /\ TableRank(gn_hands[i]) = i
       /\ \A i \in 1 .. (Len(gn_hands) - 1) :
            RuleBook5(TypeCards(gn_hands[i]))
              > RuleBook5(TypeCards(gn_hands[i + 1]))
       /\ \A i \in 1 .. (Len(gn_products) - 1) :
            gn_products[i].product < gn_products[i + 1].product
       /\ Cardinality({b \in 0 .. (BITMASK_SIZE - 1) : gn_flush[b] # 0})
          + Cardinality({b \in 0 .. (BITMASK_SIZE - 1) : gn_unique5[b] # 0})
          + Len(gn_products) = Len(gn_hands)
  /\ gn_i # 0 => gn_rank = gn_i

\* the tables built and a two-pair type looked up in the product table
C20_Witness ==
  /\ gn_pc = "built" /\ gn_i = 2500 /\ gn_rank = 2500
  /\ Len(gn_products) > 0

(***************************************************************************)
(* The driver: main of src/src/TurboFire.c                                 *)
(***************************************************************************)
\* hand_category of MCCFR.c: the grid cell of two hole cards, as a string
HandCategory(c0, c1) ==
  LET r0 == c0 \div 4
      r1 == c1 \div 4
      s0 == c0 % 4
      s1 == c1 % 4
      high == IF r0 > r1 THEN r0 ELSE r1
      low == IF r0 < r1 THEN r0 ELSE r1
  IN IF r0 = r1 THEN <<RANKS[r0 + 1], RANKS[r0 + 1]>>
     ELSE IF s0 = s1 THEN <<RANKS[high + 1], RANKS[low + 1], "s">>
     ELSE <<RANKS[high + 1], RANKS[low + 1], "o">>

\* cards[9] = {c0, c1, c2, c3} followed by the board; the rest stays 0
OverlapCards(c0, c1, c2, c3, cards, size) ==
  [i \in 1 .. 9 |->
     IF i = 1 THEN c0 ELSE IF i = 2 THEN c1 ELSE IF i = 3 THEN c2
     ELSE IF i = 4 THEN c3
     ELSE IF i - 5 < size /\ i - 5 < 5 THEN cards[i - 4] ELSE 0]

cards_overlap_IgnoresBoard(c0, c1, c2, c3, cards, size) ==
  LET all == OverlapCards(c0, c1, c2, c3, cards, size)
      total_cards == 4
  IN \E i \in 1 .. total_cards, j \in 1 .. total_cards :
       i < j /\ all[i] = all[j] /\ all[i] >= 0

cards_overlap(c0, c1, c2, c3, cards, size) ==
  LET all == OverlapCards(c0, c1, c2, c3, cards, size)
      total_cards == 4 + size
  IN \E i \in 1 .. total_cards, j \in 1 .. total_cards :
       i < j /\ all[i] = all[j] /\ all[i] >= 0

\* rand() and srand() of the C library: a stream of values in 0 .. RAND_MAX
\* that the seed fixes.  The generator is a small linear congruential one
RAND_MAX == 2^15 - 1
RandModulus == 2^16 + 1
srand(s) == s % RandModulus
rand(state) == (state * 75 + 74) % RandModulus
RandValue(state) == state % (RAND_MAX + 1)

\* (double)rand() / RAND_MAX > pct, with state the generator after the call
RandAbove(state, pct) == RandValue(state) * pct[2] > pct[1] * RAND_MAX

\* the Fisher-Yates loop of generate_random_board from index i down to 1
RECURSIVE Shuffle(_, _, _)
Shuffle(deck, i, state) ==
  IF i <= 0 THEN <<deck, state>>
  ELSE LET r == rand(state)
           j == RandValue(r) % (i + 1)
       IN Shuffle([deck EXCEPT ![i + 1] = deck[j + 1], ![j + 1] = deck[i + 1]],
                  i - 1, r)

CardsNeeded(s) ==
  IF s = STREET_FLOP THEN 3 ELSE IF s = STREET_TURN THEN 4 ELSE 5

\* generate_random_board: the board, and the static seed and the generator
\* state it leaves; now is what time(NULL) returns
generate_random_board(sb_c0, sb_c1, bb_c0, bb_c1, s, seed, state, now) ==
  LET deck == SelectSeq([c \in 1 .. 52 |-> c - 1],
                        LAMBDA c : c \notin {sb_c0, sb_c1, bb_c0, bb_c1})
      seeded == IF seed = 0 THEN srand(now) ELSE state
      shuffled == Shuffle(deck, Len(deck) - 1, seeded)
  IN [board |-> [i \in 1 .. 5 |->
                   IF i - 1 < CardsNeeded(s) THEN shuffled[1][i] ELSE -1],
      seed |-> IF seed = 0 THEN now ELSE seed,
      state |-> shuffled[2]]

\* streets_to_analyze for a board of n cards
StreetsToAnalyze(n) ==
  IF n = 0 THEN <<STREET_FLOP, STREET_TURN, STREET_RIVER>>
  ELSE IF n = 3 THEN <<STREET_TURN, STREET_RIVER>>
  ELSE IF n = 4 THEN <<STREET_RIVER>>
  ELSE << >>

\* the unique categories of the first n hands of a range, in range order
RECURSIVE CollectCategories(_, _)
CollectCategories(range, n) ==
  IF n = 0 THEN << >>
  ELSE LET before == CollectCategories(range, n - 1)
           cat == HandCategory(range.hands[n][1], range.hands[n][2])
       IN IF (\E i \in 1 .. Len(before) : before[i] = cat) \/ Len(before) >= 200
          THEN before ELSE Append(before, cat)

\* the search for the first hand of the category that passes its percentage
\* draw, from index sb_idx on: <<c0, c1, generator state>>, c0 = -1 for none
RECURSIVE FindHero(_, _, _, _)
FindHero(range, target_cat, sb_idx, state) ==
  IF sb_idx >= range.count THEN <<-1, -1, state>>
  ELSE LET c0 == range.hands[sb_idx + 1][1]
           c1 == range.hands[sb_idx + 1][2]
       IN IF HandCategory(c0, c1) = target_cat
          THEN LET r == rand(state)
               IN IF ~RandAbove(r, range.hand_percentages[sb_idx + 1])
                  THEN <<c0, c1, r>>
                  ELSE FindHero(range, target_cat, sb_idx + 1, r)
          ELSE FindHero(range, target_cat, sb_idx + 1, state)

(***************************************************************************)
(* SpecEngine: a client of MCCFR.c that creates a solver and then calls    *)
(* mccfr_get_or_create and mccfr_set_board + mccfr_solve.  The recursion   *)
(* of mccfr_cfr is the explicit stack en_stack.  The table runs with small *)
(* capacities in place of INITIAL_CAPACITY 500 and MAX_CAPACITY 50000.     *)
(***************************************************************************)
\* <<initial capacity, capacity cap>>
EngineCapacities == {<<2, 4>>, <<4, 8>>, <<128, 256>>}

NoBoard == <<-1, -1, -1, -1, -1>>
BoardOne == <<4, 20, 30, -1, -1>>
BoardTwo == <<5, 20, 30, -1, -1>>

\* InfoSets a client passes to mccfr_get_or_create.  ApiA and ApiB differ in
\* street and player and have the same mccfr_hash_infoset
ApiA == InfoSetOf(NoBoard, NoHistory, 0, STREET_FLOP, 0)
ApiB == InfoSetOf(NoBoard, NoHistory, 0, STREET_TURN, -67)
ApiC == InfoSetOf(BoardOne, NoHistory, 0, STREET_FLOP, 0)
ApiD == InfoSetOf(NoBoard, NoHistory, 0, STREET_RIVER, 1)

GetCall(iset) == [op |-> "get", iset |-> iset]
SolveCall(board, iterations) ==
  [op |-> "solve", board |-> board, iterations |-> iterations]

GetCalls == {GetCall(i) : i \in {ApiA, ApiB, ApiC, ApiD}}

\* what the client does after mccfr_create
EngineScripts ==
  UNION {[1 .. n -> GetCalls] : n \in 1 .. 3}
  \cup { <<SolveCall(BoardOne, 1)>>,
         <<SolveCall(BoardOne, 1), GetCall(ApiC)>>,
         <<SolveCall(BoardOne, 1), SolveCall(BoardTwo, 1)>>,
         <<GetCall(ApiA), SolveCall(BoardTwo, 1), GetCall(ApiB)>> }

ShowdownInputs == {-1, 0, 1}

\* mccfr_create
InitEngine ==
  /\ \E caps \in EngineCapacities, script \in EngineScripts :
       /\ en_table = init_hash_table(caps[1], caps[2])
       /\ en_script = script
  /\ en_board = NoBoard
  /\ en_street = STREET_FLOP
  /\ en_showdown = 0
  /\ en_stack = << >>
  /\ en_left = 0
  /\ en_pc = "ready"
  /\ en_arg = << >>
  /\ en_ret = -1
  /\ IdleExceptEngine

\* mccfr_get_or_create(solver, iset)
GetOrCreate ==
  /\ en_pc = "ready"
  /\ en_script # << >>
  /\ Head(en_script).op = "get"
  /\ \E r \in {find_or_create_entry(en_table, Head(en_script).iset)} :
       /\ en_table' = r[2]
       /\ en_ret' = r[1]
       /\ en_pc' = IF r[1] < 0 THEN "exit" ELSE "ready"
  /\ en_arg' = Head(en_script).iset
  /\ en_script' = Tail(en_script)
  /\ UNCHANGED <<en_board, en_street, en_showdown, en_stack, en_left>>
  /\ UNCHANGED exceptEngine

\* mccfr_set_board(solver, board, STREET_FLOP) and the entry of mccfr_solve
SetBoardAndSolve ==
  /\ en_pc = "ready"
  /\ en_script # << >>
  /\ Head(en_script).op = "solve"
  /\ en_board' = Head(en_script).board
  /\ en_street' = STREET_FLOP
  /\ \E s \in ShowdownInputs : en_showdown' = s
  /\ en_left' = Head(en_script).iterations
  /\ en_pc' = "cfr"
  /\ en_script' = Tail(en_script)
  /\ UNCHANGED <<en_table, en_stack, en_arg, en_ret>>
  /\ UNCHANGED exceptEngine

\* the loops of mccfr_solve: the next iteration calls mccfr_cfr on the root,
\* and after the last one the strategies are normalised
SolveIteration ==
  /\ en_pc = "cfr"
  /\ en_stack = << >>
  /\ IF en_left > 0
     THEN /\ en_stack' =
               <<EngineFrame(InfoSetOf(en_board, NoHistory, 0, en_street, 0),
                             One, One, 0)>>
          /\ en_left' = en_left - 1
          /\ UNCHANGED <<en_table, en_pc>>
     ELSE /\ en_table' =
               [en_table EXCEPT !.slots =
                  [i \in 1 .. Len(en_table.slots) |->
                     NormalizeEntry(en_table.slots[i])]]
          /\ en_pc' = "ready"
          /\ UNCHANGED <<en_stack, en_left>>
  /\ UNCHANGED <<en_board, en_street, en_showdown, en_script, en_arg, en_ret>>
  /\ UNCHANGED exceptEngine

\* the head of mccfr_cfr: guards, find_or_create_entry, visits++, the
\* terminal test and the strategy
CfrEnter ==
  /\ en_pc = "cfr"
  /\ en_stack # << >>
  /\ LET top == Len(en_stack)
         fr == en_stack[top]
     IN /\ fr.pc = "enter"
        /\ IF fr.depth > 10 \/ BelowEps(fr.reach_p0) \/ BelowEps(fr.reach_p1)
           THEN /\ en_stack' = EngineReturn(en_stack, Zero)
                /\ UNCHANGED <<en_table, en_pc>>
           ELSE \E r \in {find_or_create_entry(en_table, fr.iset)} :
             IF r[1] < 0
             THEN /\ en_table' = r[2]
                  /\ en_pc' = "exit"
                  /\ UNCHANGED en_stack
             ELSE LET t == [r[2] EXCEPT !.slots[r[1] + 1].data.visits = @ + 1]
                      data == t.slots[r[1] + 1].data
                      last_action == HistoryAt(fr.iset, 0)
                      value == evaluate_terminal(fr.iset.board_cards,
                                                 last_action, en_showdown)
                  IN /\ en_table' = t
                     /\ UNCHANGED en_pc
                     /\ IF /\ fr.iset.num_actions > 0
                           /\ engine_is_terminal(fr.iset, last_action)
                        THEN en_stack' =
                               EngineReturn(en_stack,
                                            IF fr.iset.player = 0 THEN value
                                            ELSE FNeg(value))
                        ELSE en_stack' =
                               [en_stack EXCEPT ![top] =
                                  [fr EXCEPT !.pc = "loop",
                                             !.data = <<t.alloc, r[1]>>,
                                             !.strategy = EngineStrategy(data)]]
  /\ UNCHANGED <<en_board, en_street, en_showdown, en_left, en_script, en_arg,
                 en_ret>>
  /\ UNCHANGED exceptEngine

\* one pass of the action loop of mccfr_cfr
CfrAction ==
  /\ en_pc = "cfr"
  /\ en_stack # << >>
  /\ LET top == Len(en_stack)
         fr == en_stack[top]
         r0 == IF fr.iset.player = 0
               THEN FMul(fr.reach_p0, fr.strategy[fr.a]) ELSE fr.reach_p0
         r1 == IF fr.iset.player = 1
               THEN FMul(fr.reach_p1, fr.strategy[fr.a]) ELSE fr.reach_p1
     IN /\ fr.pc = "loop"
        /\ fr.a < ENGINE_MAX_ACTIONS
        /\ IF fr.a = ACTION_FOLD
           THEN en_stack' =
                  EngineStoreUtil(en_stack,
                                  IF fr.iset.player = 0 THEN FNeg(One) ELSE One)
           ELSE en_stack' =
                  Append([en_stack EXCEPT ![top].pc = "wait"],
                         EngineFrame(EngineChild(fr.iset, fr.a), r0, r1,
                                     fr.depth + 1))
  /\ UNCHANGED <<en_table, en_board, en_street, en_showdown, en_left, en_pc,
                 en_script, en_arg, en_ret>>
  /\ UNCHANGED exceptEngine

\* the running call of mccfr_cfr is about to update regrets and strategy_sum
UpdateReady ==
  /\ en_pc = "cfr"
  /\ en_stack # << >>
  /\ en_stack[Len(en_stack)].pc = "loop"
  /\ en_stack[Len(en_stack)].a = ENGINE_MAX_ACTIONS

\* the tail of mccfr_cfr: the update through the data pointer taken at the
\* head, and the return of node_util.  A pointer into a table that
\* resize_hash_table has freed is undefined behaviour: the writes land in
\* freed memory and leave the live table alone, or the process dies
CfrUpdate ==
  /\ UpdateReady
  /\ LET fr == en_stack[Len(en_stack)]
     IN IF fr.data[1] = en_table.alloc
        THEN /\ en_table' =
                  [en_table EXCEPT !.slots[fr.data[2] + 1].data =
                     EngineUpdate(@, fr)]
             /\ en_stack' = EngineReturn(en_stack, fr.node_util)
             /\ UNCHANGED en_pc
        ELSE \/ /\ en_stack' = EngineReturn(en_stack, fr.node_util)
                /\ UNCHANGED <<en_table, en_pc>>
             \/ /\ en_pc' = "crash"
                /\ UNCHANGED <<en_table, en_stack>>
  /\ UNCHANGED <<en_board, en_street, en_showdown, en_left, en_script, en_arg,
                 en_ret>>
  /\ UNCHANGED exceptEngine

NextEngine ==
  GetOrCreate \/ SetBoardAndSolve \/ SolveIteration \/ CfrEnter \/ CfrAction
  \/ CfrUpdate

SpecEngine == InitEngine /\ [][NextEngine]_vars

(***************************************************************************)
(* Properties of SpecEngine                                                *)
(***************************************************************************)
\* C24: a table that is full at its capacity cap is not fatal: the solver
\* never leaves through exit(1), whatever the client asks of it
C24_FullTableNotFatal == en_pc # "exit"

\* the table is full at the cap and the process has called exit(1)
C24_Witness ==
  /\ en_pc = "exit"
  /\ en_table.size = Len(en_table.slots)
  /\ Len(en_table.slots) = en_table.max_capacity

C26_Witness ==
  /\ en_pc = "ready"
  /\ en_ret >= 0
  /\ en_arg = ApiB
  /\ en_table.slots[en_ret + 1].iset = ApiA

\* C27: when a call of mccfr_cfr updates regrets and strategy_sum, its data
\* pointer refers to the entry of its infoset in the live table
C27_DataOutlivesNoResize ==
  UpdateReady =>
    LET fr == en_stack[Len(en_stack)]
    IN /\ fr.data[1] = en_table.alloc
       /\ en_table.slots[fr.data[2] + 1].key_hash = mccfr_hash_infoset(fr.iset)

\* a call is about to update through a pointer into a freed table
C27_Witness ==
  /\ UpdateReady
  /\ en_stack[Len(en_stack)].data[1] < en_table.alloc

(***************************************************************************)
(* SpecDriver: the program of TurboFire.c run twice in a row with the same *)
(* command line.  The ranges are what parse_range returned and the board   *)
(* what parse_board returned; mccfr_create .. mccfr_free on a deal is one  *)
(* step that records the deal.                                             *)
(***************************************************************************)
RangeOf(hands, pcts, pct) ==
  [hands |-> hands, hand_percentages |-> pcts, count |-> Len(hands),
   percentage |-> pct]

\* As Ah / As Ah, Ks Kh / As Ks at one half / no hand at all
HeroRanges ==
  { RangeOf(<< <<51, 50>> >>, <<One>>, One),
    RangeOf(<< <<51, 50>>, <<47, 46>> >>, <<One, One>>, One),
    RangeOf(<< <<51, 47>> >>, <<Half>>, Half),
    EmptyRange }

\* As Ad, Kh Kd, Ah Kh / Qs Qh at one half, Ks Kd / no hand at all
VillainRanges ==
  { RangeOf(<< <<51, 49>>, <<46, 45>>, <<50, 46>> >>, <<One, One, One>>, One),
    RangeOf(<< <<43, 42>>, <<47, 45>> >>, <<Half, One>>, One),
    EmptyRange }

\* <<board, board_size>>: none, 2c 7c 9h, As 7c 9h, 7c 7c 9h, 2c 3d 7c 9h,
\* a river board, and a string that parse_board rejects
BoardArguments ==
  { <<NoBoard, 0>>, <<<<0, 20, 30, -1, -1>>, 3>>, <<<<51, 20, 30, -1, -1>>, 3>>,
    <<<<20, 20, 30, -1, -1>>, 3>>, <<<<0, 5, 20, 30, -1>>, 4>>,
    <<<<0, 5, 20, 30, 40>>, 5>>, <<NoBoard, -1>> }

ClockValues == {1762214400, 1762214401}

\* the static data of a process that has just started
FreshProcess ==
  /\ dr_seed' = 0
  /\ dr_rng' = srand(1)
  /\ dr_pc' = "start"
  /\ dr_status' = -1
  /\ dr_categories' = << >>
  /\ dr_street_idx' = 0
  /\ dr_cat_idx' = 0
  /\ dr_bb_idx' = 0
  /\ dr_bb_tested' = 0
  /\ dr_bb_attempts' = 0
  /\ dr_hero' = <<-1, -1>>
  /\ dr_villain' = <<-1, -1>>
  /\ dr_actual' = NoBoard
  /\ dr_log' = << >>

InitDriver ==
  /\ dr_sb \in HeroRanges
  /\ dr_bb \in VillainRanges
  /\ \E b \in BoardArguments : dr_board = b[1] /\ dr_board_size = b[2]
  /\ dr_clock \in ClockValues
  /\ dr_run = 1
  /\ dr_seed = 0
  /\ dr_rng = srand(1)
  /\ dr_pc = "start"
  /\ dr_status = -1
  /\ dr_categories = << >>
  /\ dr_street_idx = 0
  /\ dr_cat_idx = 0
  /\ dr_bb_idx = 0
  /\ dr_bb_tested = 0
  /\ dr_bb_attempts = 0
  /\ dr_hero = <<-1, -1>>
  /\ dr_villain = <<-1, -1>>
  /\ dr_actual = NoBoard
  /\ dr_log = << >>
  /\ dr_first = << >>
  /\ IdleExceptDriver

\* main down to the street loop: the board check, the ranges, the streets
\* and the categories of the SB range
DriverStart ==
  /\ dr_pc = "start"
  /\ IF dr_board_size < 0
     THEN dr_pc' = "done" /\ dr_status' = 1 /\ UNCHANGED dr_categories
     ELSE IF dr_board_size = 5
     THEN dr_pc' = "done" /\ dr_status' = 0 /\ UNCHANGED dr_categories
     ELSE /\ dr_pc' = "street"
          /\ dr_categories' = CollectCategories(dr_sb, dr_sb.count)
          /\ UNCHANGED dr_status
  /\ UNCHANGED <<dr_sb, dr_bb, dr_board, dr_board_size, dr_clock, dr_run,
                 dr_seed, dr_rng, dr_street_idx, dr_cat_idx, dr_bb_idx,
                 dr_bb_tested, dr_bb_attempts, dr_hero, dr_villain, dr_actual,
                 dr_log, dr_first>>
  /\ UNCHANGED exceptDriver

\* the head of the street loop, and the return 0 after it
StreetBegin ==
  /\ dr_pc = "street"
  /\ IF dr_street_idx < Len(StreetsToAnalyze(dr_board_size))
     THEN dr_pc' = "cat" /\ dr_cat_idx' = 0 /\ UNCHANGED dr_status
     ELSE dr_pc' = "done" /\ dr_status' = 0 /\ UNCHANGED dr_cat_idx
  /\ UNCHANGED <<dr_sb, dr_bb, dr_board, dr_board_size, dr_clock, dr_run,
                 dr_seed, dr_rng, dr_categories, dr_street_idx, dr_bb_idx,
                 dr_bb_tested, dr_bb_attempts, dr_hero, dr_villain, dr_actual,
                 dr_log, dr_first>>
  /\ UNCHANGED exceptDriver

\* the head of the category loop: the range percentage draw and the choice
\* of the SB hand
CategoryBegin ==
  /\ dr_pc = "cat"
  /\ IF dr_cat_idx >= Len(dr_categories)
     THEN /\ dr_pc' = "street"
          /\ dr_street_idx' = dr_street_idx + 1
          /\ UNCHANGED <<dr_rng, dr_cat_idx, dr_bb_idx, dr_bb_tested,
                         dr_bb_attempts, dr_hero>>
     ELSE LET drawn == FLt(dr_sb.percentage, One)
              r == IF drawn THEN rand(dr_rng) ELSE dr_rng
          IN IF drawn /\ RandAbove(r, dr_sb.percentage)
             THEN /\ dr_rng' = r
                  /\ dr_cat_idx' = dr_cat_idx + 1
                  /\ UNCHANGED <<dr_pc, dr_street_idx, dr_bb_idx, dr_bb_tested,
                                 dr_bb_attempts, dr_hero>>
             ELSE \E found \in {FindHero(dr_sb, dr_categories[dr_cat_idx + 1],
                                         0, r)} :
                    /\ dr_rng' = found[3]
                    /\ UNCHANGED dr_street_idx
                    /\ IF found[1] < 0 \/ found[2] < 0
                       THEN /\ dr_cat_idx' = dr_cat_idx + 1
                            /\ UNCHANGED <<dr_pc, dr_bb_idx, dr_bb_tested,
                                           dr_bb_attempts, dr_hero>>
                       ELSE /\ dr_hero' = <<found[1], found[2]>>
                            /\ dr_bb_idx' = 0
                            /\ dr_bb_tested' = 0
                            /\ dr_bb_attempts' = 0
                            /\ dr_pc' = "bb"
                            /\ UNCHANGED dr_cat_idx
  /\ UNCHANGED <<dr_sb, dr_bb, dr_board, dr_board_size, dr_clock, dr_run,
                 dr_seed, dr_categories, dr_villain, dr_actual, dr_log,
                 dr_first, dr_status>>
  /\ UNCHANGED exceptDriver

\* the BB hand at bb_idx overlaps the SB hand or the board given
OverlapAt ==
  cards_overlap(dr_hero[1], dr_hero[2], dr_bb.hands[dr_bb_idx + 1][1],
                dr_bb.hands[dr_bb_idx + 1][2], dr_board, dr_board_size)

\* bb_idx after a continue: the wrap at the last hand, then bb_idx++
AfterSkip == (IF dr_bb_idx = dr_bb.count - 1 THEN -1 ELSE dr_bb_idx) + 1

\* one pass of the BB loop down to the board of the deal
VillainStep ==
  /\ dr_pc = "bb"
  /\ IF ~(/\ dr_bb_idx < dr_bb.count
          /\ dr_bb_tested < 5
          /\ dr_bb_attempts < dr_bb.count * 2)
     THEN /\ dr_pc' = "cat"
          /\ dr_cat_idx' = dr_cat_idx + 1
          /\ UNCHANGED <<dr_seed, dr_rng, dr_bb_idx, dr_bb_tested,
                         dr_bb_attempts, dr_villain, dr_actual>>
     ELSE LET r == rand(dr_rng)
              street == StreetsToAnalyze(dr_board_size)[dr_street_idx + 1]
              bb_c0 == dr_bb.hands[dr_bb_idx + 1][1]
              bb_c1 == dr_bb.hands[dr_bb_idx + 1][2]
          IN /\ dr_bb_attempts' = dr_bb_attempts + 1
             /\ UNCHANGED dr_cat_idx
             /\ IF RandAbove(r, dr_bb.hand_percentages[dr_bb_idx + 1])
                THEN /\ dr_rng' = r
                     /\ dr_bb_idx' = AfterSkip
                     /\ UNCHANGED <<dr_pc, dr_seed, dr_bb_tested, dr_villain,
                                    dr_actual>>
                ELSE IF OverlapAt
                THEN /\ dr_rng' = r
                     /\ dr_bb_idx' = AfterSkip
                     /\ UNCHANGED <<dr_pc, dr_seed, dr_bb_tested, dr_villain,
                                    dr_actual>>
                ELSE /\ dr_bb_tested' = dr_bb_tested + 1
                     /\ dr_villain' = <<bb_c0, bb_c1>>
                     /\ dr_pc' = "solve"
                     /\ UNCHANGED dr_bb_idx
                     /\ IF dr_board_size = 0
                        THEN \E g \in {generate_random_board(
                                         dr_hero[1], dr_hero[2], bb_c0, bb_c1,
                                         street, dr_seed, r, dr_clock)} :
                               /\ dr_actual' = g.board
                               /\ dr_seed' = g.seed
                               /\ dr_rng' = g.state
                        ELSE /\ dr_actual' = dr_board
                             /\ dr_rng' = r
                             /\ UNCHANGED dr_seed
  /\ UNCHANGED <<dr_sb, dr_bb, dr_board, dr_board_size, dr_clock, dr_run,
                 dr_categories, dr_street_idx, dr_hero, dr_log, dr_first,
                 dr_status>>
  /\ UNCHANGED exceptDriver

\* mccfr_create, mccfr_set_board, mccfr_solve, mccfr_get_or_create and
\* mccfr_free on the deal, the aggregation, and the bb_idx++ of the loop
SolveDeal ==
  /\ dr_pc = "solve"
  /\ dr_log' =
       Append(dr_log,
              [street |-> StreetsToAnalyze(dr_board_size)[dr_street_idx + 1],
               hero |-> dr_hero, villain |-> dr_villain, board |-> dr_actual])
  /\ dr_bb_idx' = dr_bb_idx + 1
  /\ dr_pc' = "bb"
  /\ UNCHANGED <<dr_sb, dr_bb, dr_board, dr_board_size, dr_clock, dr_run,
                 dr_seed, dr_rng, dr_categories, dr_street_idx, dr_cat_idx,
                 dr_bb_tested, dr_bb_attempts, dr_hero, dr_villain, dr_actual,
                 dr_first, dr_status>>
  /\ UNCHANGED exceptDriver

\* the program is started again with the same arguments, now or later
RunAgain ==
  /\ dr_pc = "done"
  /\ dr_run = 1
  /\ dr_run' = 2
  /\ dr_first' = dr_log
  /\ \E now \in ClockValues : now >= dr_clock /\ dr_clock' = now
  /\ FreshProcess
  /\ UNCHANGED <<dr_sb, dr_bb, dr_board, dr_board_size>>
  /\ UNCHANGED exceptDriver

NextDriver ==
  DriverStart \/ StreetBegin \/ CategoryBegin \/ VillainStep \/ SolveDeal
  \/ RunAgain

SpecDriver == InitDriver /\ [][NextDriver]_vars

(***************************************************************************)
(* Properties of SpecDriver                                                *)
(***************************************************************************)
\* the cards of the deal in hand: four hole cards and the board dealt
DealCards == dr_hero \o dr_villain \o dr_actual

NoCardTwice(cards) ==
  \A i \in 1 .. Len(cards), j \in 1 .. Len(cards) :
    (i < j /\ cards[i] >= 0) => cards[i] # cards[j]

\* a deal handed to the solver has no card twice; a generated board has the
\* cards of its street, none of them a hole card
SolvedDealIsClean ==
  dr_pc = "solve" =>
    /\ NoCardTwice(DealCards)
    /\ dr_board_size = 0 =>
         \A i \in 1 .. 5 :
           (dr_actual[i] >= 0) =
             (i <= CardsNeeded(StreetsToAnalyze(0)[dr_street_idx + 1]))

\* a BB hand that overlaps the SB hand or the board given is passed over:
\* nothing is solved and the loop goes on with the next BB hand
OverlapIsSkipped ==
  (dr_pc = "bb" /\ dr_bb_idx < dr_bb.count /\ OverlapAt) =>
    /\ dr_pc' # "solve"
    /\ dr_log' = dr_log
    /\ dr_bb_tested' = dr_bb_tested
    /\ \/ dr_pc' = "cat"
       \/ dr_pc' = "bb" /\ dr_bb_idx' = (dr_bb_idx + 1) % dr_bb.count

\* C22: the driver never runs the solver on a deal with a duplicated card:
\* an overlapping (hero, villain, board) combination is skipped for the next
\* villain hand, and a random board has no hole card and no card twice
C22_NoDuplicateCardDeal == []SolvedDealIsClean /\ [][OverlapIsSkipped]_vars

\* a random flop is about to be solved after an overlapping BB hand was
\* passed over
C22_Witness ==
  /\ dr_pc = "solve"
  /\ dr_board_size = 0
  /\ dr_bb_attempts > dr_bb_tested
  /\ \A i \in 1 .. dr_bb.count : dr_bb.hand_percentages[i] = One
  /\ dr_actual[3] >= 0

\* C23: a range without any valid combination is fatal: the program ends
\* with status 1 and no deal was analysed
C23_EmptyRangeIsFatal ==
  (dr_pc = "done" /\ dr_board_size >= 0 /\ (dr_sb.count = 0 \/ dr_bb.count = 0))
    => (dr_status = 1 /\ dr_log = << >>)

\* the program has ended with status 0 on an empty SB range
C23_Witness ==
  /\ dr_pc = "done"
  /\ dr_sb.count = 0
  /\ dr_board_size = 0
  /\ dr_status = 0

\* C25: two runs with the same command line sample the same hands and
\* boards
C25_RunsReproduce ==
  (dr_run = 2 /\ dr_pc = "done") => dr_log = dr_first

\* both runs have ended and their deals differ
C25_Witness ==
  /\ dr_run = 2
  /\ dr_pc = "done"
  /\ Len(dr_log) = Len(dr_first)
  /\ dr_log # dr_first

(***************************************************************************)
(* SpecCompare: eval7 of Simulator.c over the tables HandRankGen writes,   *)
(* and evaluate of ranks.c, on the same two seven-card hands               *)
(***************************************************************************)
CompareHands == SevenOf(EvalDeckA)

\* load_tables has read the file that HandRankGen wrote
InitCompare ==
  /\ cm_tables = build_tables(generate_all_hands)
  /\ cm_h1 \in CompareHands
  /\ cm_h2 \in CompareHands
  /\ cm_rank1 = -1
  /\ cm_rank2 = -1
  /\ cm_strength1 = -1
  /\ cm_strength2 = -1
  /\ IdleExceptCompare

EvaluateBoth ==
  /\ cm_rank1 = -1
  /\ cm_rank1' = eval7(cm_tables, SimCards(cm_h1))
  /\ cm_rank2' = eval7(cm_tables, SimCards(cm_h2))
  /\ cm_strength1' = evaluate(HoleOf(cm_h1), cm_h1 \ HoleOf(cm_h1))
  /\ cm_strength2' = evaluate(HoleOf(cm_h2), cm_h2 \ HoleOf(cm_h2))
  /\ UNCHANGED <<cm_tables, cm_h1, cm_h2>>
  /\ UNCHANGED exceptCompare

NextCompare == EvaluateBoth

SpecCompare == InitCompare /\ [][NextCompare]_vars

\* C21: the two evaluators order hands identically: eval7 ranks the first
\* hand lower (better) exactly when evaluate gives it the higher strength,
\* and the ranks are equal exactly when the strengths are equal
C21_SameOrder ==
  cm_rank1 # -1 =>
    /\ (cm_rank1 < cm_rank2) <=> (cm_strength1 > cm_strength2)
    /\ (cm_rank1 = cm_rank2) <=> (cm_strength1 = cm_strength2)

\* eval7 agrees with the rule book on the two hands
Eval7FollowsRuleBook ==
  cm_rank1 # -1 =>
    /\ (cm_rank1 < cm_rank2) <=> (RuleBookOf[cm_h1] > RuleBookOf[cm_h2])
    /\ (cm_rank1 = cm_rank2) <=> (RuleBookOf[cm_h1] = RuleBookOf[cm_h2])

\* a seven-high flush against the ace-high straight: eval7 ranks the flush
\* better, evaluate gives both the same strength
C21_Witness ==
  /\ cm_h1 = {Two_s, Three_s, Four_s, Five_s, Seven_s, Th, Jh}
  /\ cm_h2 = {Two_s, Three_s, Th, Jh, Qd, Kd, Ac}
  /\ cm_rank1 # -1
  /\ cm_rank1 < cm_rank2
  /\ cm_strength1 = cm_strength2

====
